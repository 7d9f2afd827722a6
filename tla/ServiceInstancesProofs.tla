------------------------ MODULE ServiceInstancesProofs ------------------------
(***************************************************************************)
(* For every number of entries, connections and objects: the reference     *)
(* count of a shared object is exactly the number of connections that hold *)
(* it, and no open connection calls into an object given up by the         *)
(* manager.                                                                *)
(*                                                                         *)
(* RefCountExact is not inductive alone: that a rejected or dropped        *)
(* connection takes back precisely what it was given rests on which end    *)
(* point has recorded which entry and object.  IInv relates the three      *)
(* tables: the manager's descriptors, the objects, and the end points.     *)
(***************************************************************************)
EXTENDS ServiceInstances, FiniteSetTheorems, TLAPS

\* The manager's table m against the objects objs: an entry owns live objects,
\* no two entries own the same one, and a shared object exists exactly while it
\* is counted.
ManagerOK(m, objs) ==
  /\ \A e \in Entry : \A o \in Owned(m[e]) : o \in Obj /\ objs[o] = "live"
  /\ \A e1, e2 \in Entry : e1 # e2 => Owned(m[e1]) \cap Owned(m[e2]) = {}
  /\ \A e \in GlobalEntry :
       /\ m[e].individualInstances = {}
       /\ m[e].globalInstance = NoObj <=> m[e].globalRefCount = 0
  /\ \A e \in Entry \ GlobalEntry :
       m[e].globalInstance = NoObj /\ m[e].globalRefCount = 0

ManagerInv == ManagerOK(metaMap, object)

\* An open end point that recorded an entry serves an object of that entry;
\* one that did not serves none.
EndPointInv ==
  \A c \in Conn : phase[c] = "open" =>
    IF entry[c] = NoEntry
    THEN service[c] = NoObj
    ELSE /\ entry[c] \in registered
         /\ service[c] = instanceId[c]
         /\ service[c] \in Owned(metaMap[entry[c]])

\* A connection that has not sent its request, or whose request is unread, has
\* recorded nothing yet.
UnservedInv ==
  \A c \in Conn :
    /\ phase[c] \in {"none", "backlog"} => entry[c] = NoEntry /\ service[c] = NoObj
    /\ phase[c] = "open" /\ (client[c] = "connected" \/ request[c] # NoEntry)
       => entry[c] = NoEntry
    /\ client[c] \in {"off", "connected"} => request[c] = NoEntry

\* Two open end points of one private entry serve different objects.
DistinctInv ==
  \A c1, c2 \in Conn :
    /\ c1 # c2 /\ phase[c1] = "open" /\ phase[c2] = "open"
    /\ entry[c1] = entry[c2] /\ entry[c1] \in Entry \ GlobalEntry
    => instanceId[c1] # instanceId[c2]

\* The descriptor of an entry nobody registered is empty.
UnregisteredInv == \A e \in Entry \ registered : metaMap[e] = EmptyDescriptor

IInv ==
  /\ TypeOK
  /\ RefCountExact
  /\ ManagerInv
  /\ EndPointInv
  /\ UnservedInv
  /\ DistinctInv
  /\ UnregisteredInv
  /\ IdleServiceQuits
-----------------------------------------------------------------------------
LEMMA HoldersFinite ==
  ASSUME NEW e
  PROVE  /\ IsFiniteSet(Holders(e))
         /\ IsFiniteSet(Holders(e)')
         /\ Cardinality(Holders(e)) \in Nat
  <1>1. /\ Holders(e) \in SUBSET Conn
        /\ Holders(e)' \in SUBSET Conn
    BY DEF Holders
  <1>2. IsFiniteSet(Holders(e)) /\ IsFiniteSet(Holders(e)')
    BY <1>1, InstancesAssumption, FS_Subset
  <1>3. QED
    BY <1>2, FS_CardinalityType

\* The counts stay exact when neither they nor the holders change.
LEMMA SameHolders ==
  ASSUME RefCountExact,
         \A e \in GlobalEntry :
           /\ metaMap'[e].globalRefCount = metaMap[e].globalRefCount
           /\ Holders(e)' = Holders(e)
  PROVE  RefCountExact'
  BY DEF RefCountExact

LEMMA InitInv == Init => IInv
  <1> SUFFICES ASSUME Init PROVE IInv
    OBVIOUS
  <1> USE InstancesAssumption DEF Init
  <1>1. TypeOK
    BY DEF TypeOK, Descriptor, EmptyDescriptor, Phases, ClientStates
  <1>2. RefCountExact
    <2>1. ASSUME NEW e \in GlobalEntry
          PROVE  metaMap[e].globalRefCount = Cardinality(Holders(e))
      <3>1. Holders(e) = {}
        BY DEF Holders
      <3>2. metaMap[e].globalRefCount = 0
        BY DEF EmptyDescriptor
      <3>3. QED
        BY <3>1, <3>2, FS_EmptySet
    <2>2. QED
      BY <2>1 DEF RefCountExact
  <1>3. ManagerInv
    BY DEF ManagerInv, ManagerOK, Owned, EmptyDescriptor
  <1>4. /\ EndPointInv /\ UnservedInv /\ DistinctInv
        /\ UnregisteredInv /\ IdleServiceQuits
    BY DEF EndPointInv, UnservedInv, DistinctInv, UnregisteredInv, IdleServiceQuits
  <1>5. QED
    BY <1>1, <1>2, <1>3, <1>4 DEF IInv
-----------------------------------------------------------------------------
(***************************************************************************)
(* The manager's operations, on any map and objects that satisfy its       *)
(* invariant.                                                              *)
(***************************************************************************)
LEMMA AcquireOK ==
  ASSUME TypeOK, ManagerInv, NEW e \in Entry, NEW o \in Obj, Granted(e, o)
  PROVE  /\ AcquiredMap(e, o) \in [Entry -> Descriptor]
         /\ AcquiredObjects(o) \in [Obj -> {"free", "live", "doomed"}]
         /\ ManagerOK(AcquiredMap(e, o), AcquiredObjects(o))
         /\ Owned(AcquiredMap(e, o)[e]) = Owned(metaMap[e]) \cup {o}
         /\ \A f \in Entry \ {e} : AcquiredMap(e, o)[f] = metaMap[f]
         /\ e \in GlobalEntry =>
              AcquiredMap(e, o)[e].globalRefCount = metaMap[e].globalRefCount + 1
  <1> USE InstancesAssumption
  <1> DEFINE d == metaMap[e]
             n == Acquire(d, e, o)
  <1>0. d \in Descriptor
    BY DEF TypeOK
  <1>1. /\ AcquiredMap(e, o)[e] = n
        /\ \A f \in Entry \ {e} : AcquiredMap(e, o)[f] = metaMap[f]
        /\ DOMAIN AcquiredMap(e, o) = Entry
    BY DEF AcquiredMap, TypeOK
  <1>2. CASE e \in GlobalEntry /\ d.globalInstance # NoObj
    <2>1. /\ n = [d EXCEPT !.globalRefCount = @ + 1]
          /\ o = d.globalInstance
      BY <1>2 DEF Acquire, AcquireGlobal, Granted, Shared
    <2>2. /\ n \in Descriptor
          /\ n.globalInstance = d.globalInstance
          /\ n.individualInstances = d.individualInstances
          /\ n.globalRefCount = d.globalRefCount + 1
      BY <1>0, <2>1 DEF Descriptor
    <2>3. Owned(n) = Owned(d) /\ o \in Owned(d)
      BY <1>2, <2>1, <2>2 DEF Owned
    <2>4. object[o] = "live"
      BY <2>3 DEF ManagerInv, ManagerOK
    <2>5. AcquiredObjects(o) = object
      BY <2>4 DEF AcquiredObjects, TypeOK
    <2>6. AcquiredMap(e, o) \in [Entry -> Descriptor]
      BY <1>1, <2>2 DEF AcquiredMap, TypeOK
    <2>7. ManagerOK(AcquiredMap(e, o), AcquiredObjects(o))
      <3>1. \A f \in Entry : Owned(AcquiredMap(e, o)[f]) = Owned(metaMap[f])
        BY <1>1, <2>3
      <3>2. /\ n.individualInstances = {}
            /\ n.globalInstance # NoObj /\ n.globalRefCount # 0
        BY <1>0, <1>2, <2>2 DEF ManagerInv, ManagerOK, Descriptor
      <3>3. QED
        BY <1>1, <1>2, <2>5, <3>1, <3>2 DEF ManagerInv, ManagerOK
    <2>8. QED
      BY <1>1, <2>2, <2>3, <2>5, <2>6, <2>7 DEF TypeOK
  <1>3. CASE ~(e \in GlobalEntry /\ d.globalInstance # NoObj)
    <2>1. object[o] = "free"
      BY <1>3 DEF Granted, Shared
    <2>2. /\ n \in Descriptor
          /\ Owned(n) = Owned(d) \cup {o}
          /\ e \in GlobalEntry =>
               /\ n.individualInstances = {}
               /\ n.globalInstance = o
               /\ n.globalRefCount = 1 /\ d.globalRefCount = 0
          /\ e \notin GlobalEntry =>
               n.globalInstance = NoObj /\ n.globalRefCount = 0
      <3>1. CASE e \in GlobalEntry
        <4>1. /\ n = [globalInstance |-> o,
                     globalRefCount |-> 1,
                     individualInstances |-> d.individualInstances]
              /\ d.globalInstance = NoObj
          BY <1>3, <3>1 DEF Acquire, AcquireGlobal
        <4>2. d.individualInstances = {} /\ d.globalRefCount = 0
          BY <3>1, <4>1 DEF ManagerInv, ManagerOK
        <4>3. /\ n \in Descriptor
              /\ n.individualInstances = {}
              /\ n.globalInstance = o
              /\ n.globalRefCount = 1
          BY <1>0, <4>1, <4>2 DEF Descriptor
        <4>4. Owned(n) = {o} /\ Owned(d) = {}
          BY <4>1, <4>2, <4>3 DEF Owned
        <4>5. QED
          BY <3>1, <4>2, <4>3, <4>4
      <3>2. CASE e \notin GlobalEntry
        <4>1. n = [d EXCEPT !.individualInstances = @ \cup {o}]
          BY <3>2 DEF Acquire
        <4>2. d.globalInstance = NoObj /\ d.globalRefCount = 0
          BY <3>2 DEF ManagerInv, ManagerOK
        <4>3. QED
          BY <1>0, <3>2, <4>1, <4>2 DEF Descriptor, Owned
      <3>3. QED
        BY <3>1, <3>2
    <2>3. /\ AcquiredObjects(o) \in [Obj -> {"free", "live", "doomed"}]
          /\ AcquiredObjects(o)[o] = "live"
          /\ \A x \in Obj \ {o} : AcquiredObjects(o)[x] = object[x]
      BY DEF AcquiredObjects, TypeOK
    <2>4. \A f \in Entry : o \notin Owned(metaMap[f])
      BY <2>1 DEF ManagerInv, ManagerOK
    <2>5. AcquiredMap(e, o) \in [Entry -> Descriptor]
      BY <1>1, <2>2 DEF AcquiredMap, TypeOK
    <2>6. ManagerOK(AcquiredMap(e, o), AcquiredObjects(o))
      <3>1. \A f \in Entry \ {e} : Owned(AcquiredMap(e, o)[f]) = Owned(metaMap[f])
        BY <1>1
      <3>2. Owned(AcquiredMap(e, o)[e]) = Owned(metaMap[e]) \cup {o}
        BY <1>1, <2>2
      <3>3. \A f \in Entry : \A x \in Owned(AcquiredMap(e, o)[f]) :
              x \in Obj /\ AcquiredObjects(o)[x] = "live"
        BY <2>3, <2>4, <3>1, <3>2 DEF ManagerInv, ManagerOK
      <3>4. \A e1, e2 \in Entry : e1 # e2 =>
              Owned(AcquiredMap(e, o)[e1]) \cap Owned(AcquiredMap(e, o)[e2]) = {}
        BY <2>4, <3>1, <3>2 DEF ManagerInv, ManagerOK
      <3>5. \A f \in GlobalEntry :
              /\ AcquiredMap(e, o)[f].individualInstances = {}
              /\ AcquiredMap(e, o)[f].globalInstance = NoObj
                 <=> AcquiredMap(e, o)[f].globalRefCount = 0
        BY <1>1, <2>2 DEF ManagerInv, ManagerOK
      <3>6. \A f \in Entry \ GlobalEntry :
              /\ AcquiredMap(e, o)[f].globalInstance = NoObj
              /\ AcquiredMap(e, o)[f].globalRefCount = 0
        BY <1>1, <2>2 DEF ManagerInv, ManagerOK
      <3>7. QED
        BY <3>3, <3>4, <3>5, <3>6 DEF ManagerOK
    <2>7. QED
      BY <1>1, <2>2, <2>3, <2>5, <2>6
  <1>4. QED
    BY <1>2, <1>3

\* removeObjectInstance of a registered entry that holds an instance.
LEMMA RemoveOK ==
  ASSUME NEW m \in [Entry -> Descriptor],
         NEW objs \in [Obj -> {"free", "live", "doomed"}],
         ManagerOK(m, objs), quitting \in BOOLEAN,
         NEW e \in Entry, NEW id \in Obj, ~RemovalIgnored(m, e),
         RemoveObjectInstance(m, objs, e, id)
  PROVE  /\ metaMap' \in [Entry -> Descriptor]
         /\ object' \in [Obj -> {"free", "live", "doomed"}]
         /\ quitting' \in BOOLEAN
         /\ ManagerInv'
         /\ \A f \in Entry \ {e} : metaMap'[f] = m[f]
         /\ e \in GlobalEntry =>
              /\ m[e].globalRefCount > 0
              /\ metaMap'[e].globalRefCount = m[e].globalRefCount - 1
              /\ m[e].globalRefCount > 1 => Owned(metaMap'[e]) = Owned(m[e])
         /\ e \notin GlobalEntry => Owned(metaMap'[e]) = Owned(m[e]) \ {id}
         /\ quitting => quitting'
         /\ QuitOnLast /\ NoInstances(metaMap') => quitting'
  <1> USE InstancesAssumption
  <1> DEFINE d == m[e]
             n == Release(m[e], e, id)
  <1>0. d \in Descriptor
    OBVIOUS
  <1>1. /\ metaMap' = [m EXCEPT ![e] = n]
        /\ object' = [o \in Obj |-> IF o \in Owned(d) \ Owned(n)
                                    THEN "doomed" ELSE objs[o]]
        /\ quitting' = (quitting \/ (QuitOnLast /\ NoInstances(metaMap')))
    BY DEF RemoveObjectInstance
  <1>2. /\ n \in Descriptor
        /\ Owned(n) \subseteq Owned(d)
        /\ e \in GlobalEntry =>
             /\ d.globalRefCount > 0
             /\ n.globalRefCount = d.globalRefCount - 1
             /\ n.individualInstances = {}
             /\ n.globalInstance = NoObj <=> n.globalRefCount = 0
             /\ d.globalRefCount > 1 => Owned(n) = Owned(d)
        /\ e \notin GlobalEntry =>
             /\ Owned(n) = Owned(d) \ {id}
             /\ n.globalInstance = NoObj /\ n.globalRefCount = 0
    <2>1. CASE e \in GlobalEntry
      <3>1. /\ d.globalRefCount \in Nat /\ d.globalRefCount > 0
            /\ d.individualInstances = {}
            /\ d.globalInstance # NoObj
        BY <1>0, <2>1 DEF RemovalIgnored, ManagerOK, Descriptor
      <3>2. n = ReleaseGlobal(d)
        BY <2>1, <3>1 DEF Release
      <3>3. CASE d.globalRefCount = 1
        <4>1. n = [globalInstance |-> NoObj,
                   globalRefCount |-> 0,
                   individualInstances |-> d.individualInstances]
          BY <3>2, <3>3 DEF ReleaseGlobal
        <4>2. n \in Descriptor /\ Owned(n) = {}
          BY <1>0, <3>1, <4>1 DEF Descriptor, Owned
        <4>3. QED
          BY <2>1, <3>1, <3>3, <4>1, <4>2
      <3>4. CASE d.globalRefCount # 1
        <4>1. n = [d EXCEPT !.globalRefCount = @ - 1]
          BY <3>2, <3>4 DEF ReleaseGlobal
        <4>2. /\ n \in Descriptor
              /\ n.globalRefCount = d.globalRefCount - 1
              /\ n.individualInstances = {}
              /\ n.globalInstance = d.globalInstance
          BY <1>0, <3>1, <3>4, <4>1 DEF Descriptor
        <4>3. Owned(n) = Owned(d)
          BY <3>1, <4>2 DEF Owned
        <4>4. n.globalRefCount # 0
          BY <3>1, <3>4, <4>2
        <4>5. QED
          BY <2>1, <3>1, <4>2, <4>3, <4>4
      <3>5. QED
        BY <3>3, <3>4
    <2>2. CASE e \notin GlobalEntry
      <3>1. n = [d EXCEPT !.individualInstances = @ \ {id}]
        BY <2>2 DEF Release
      <3>2. d.globalInstance = NoObj /\ d.globalRefCount = 0
        BY <2>2 DEF ManagerOK
      <3>3. /\ n \in Descriptor
            /\ n.individualInstances = d.individualInstances \ {id}
            /\ n.globalInstance = NoObj /\ n.globalRefCount = 0
        BY <1>0, <3>1, <3>2 DEF Descriptor
      <3>4. Owned(n) = Owned(d) \ {id}
        BY <3>2, <3>3 DEF Owned
      <3>5. QED
        BY <2>2, <3>3, <3>4
    <2>3. QED
      BY <2>1, <2>2
  <1>3. /\ metaMap' \in [Entry -> Descriptor]
        /\ metaMap'[e] = n
        /\ \A f \in Entry \ {e} : metaMap'[f] = m[f]
    BY <1>1, <1>2
  <1>4. object' \in [Obj -> {"free", "live", "doomed"}]
    BY <1>1
  <1>5. ManagerOK(metaMap', object')
    <2>1. \A f \in Entry : Owned(metaMap'[f]) \subseteq Owned(m[f])
      BY <1>2, <1>3
    <2>2. \A f \in Entry : \A o \in Owned(metaMap'[f]) :
            o \in Obj /\ object'[o] = "live"
      <3>1. ASSUME NEW f \in Entry, NEW o \in Owned(metaMap'[f])
            PROVE  o \in Obj /\ object'[o] = "live"
        <4>1. o \in Obj /\ objs[o] = "live"
          BY <2>1, <3>1 DEF ManagerOK
        <4>2. o \notin Owned(d) \ Owned(n)
          <5>1. CASE f = e
            BY <1>3, <3>1, <5>1
          <5>2. CASE f # e
            BY <1>3, <3>1, <5>2 DEF ManagerOK
          <5>3. QED
            BY <5>1, <5>2
        <4>3. QED
          BY <1>1, <4>1, <4>2
      <3>2. QED
        BY <3>1
    <2>3. \A e1, e2 \in Entry :
            e1 # e2 => Owned(metaMap'[e1]) \cap Owned(metaMap'[e2]) = {}
      BY <2>1 DEF ManagerOK
    <2>4. \A f \in GlobalEntry :
            /\ metaMap'[f].individualInstances = {}
            /\ metaMap'[f].globalInstance = NoObj <=> metaMap'[f].globalRefCount = 0
      BY <1>2, <1>3 DEF ManagerOK
    <2>5. \A f \in Entry \ GlobalEntry :
            metaMap'[f].globalInstance = NoObj /\ metaMap'[f].globalRefCount = 0
      BY <1>2, <1>3 DEF ManagerOK
    <2>6. QED
      BY <2>2, <2>3, <2>4, <2>5 DEF ManagerOK
  <1>6. ManagerInv'
    BY <1>5 DEF ManagerInv
  <1>7. quitting' \in BOOLEAN /\ (quitting => quitting')
        /\ (QuitOnLast /\ NoInstances(metaMap') => quitting')
    BY <1>1 DEF NoInstances
  <1>8. QED
    BY <1>2, <1>3, <1>4, <1>6, <1>7
-----------------------------------------------------------------------------
(***************************************************************************)
(* The handlers.                                                           *)
(***************************************************************************)
\* disconnected() on an open end point, whatever it has recorded.
LEMMA DisconnectedInv ==
  ASSUME IInv, NEW c \in Conn, phase[c] = "open",
         Disconnected(c, metaMap, object),
         UNCHANGED <<registered, entry, instanceId, service, client, served>>,
         request' \in {request, [request EXCEPT ![c] = NoEntry]}
  PROVE  IInv'
  <1> USE InstancesAssumption
  <1>0. TypeOK /\ ManagerInv
    BY DEF IInv
  <1>1. /\ phase' = [phase EXCEPT ![c] = "closing"]
        /\ phase' \in [Conn -> Phases]
        /\ phase'[c] = "closing"
        /\ \A k \in Conn \ {c} : phase'[k] = phase[k]
    BY <1>0 DEF Disconnected, TypeOK, Phases
  <1>2. /\ request' \in [Conn -> Entry \cup {NoEntry}]
        /\ \A k \in Conn \ {c} : request'[k] = request[k]
        /\ \A k \in Conn : request'[k] # NoEntry => request[k] # NoEntry
    BY <1>0 DEF TypeOK
  <1>3. UnservedInv'
    BY <1>1, <1>2 DEF IInv, UnservedInv
  <1>4. DistinctInv'
    BY <1>1 DEF IInv, DistinctInv
  <1>5. \A e \in Entry : Holders(e)' = Holders(e) \ {c}
    BY <1>1 DEF Holders
  <1>6. CASE entry[c] = NoEntry
    <2>1. RemovalIgnored(metaMap, entry[c])
      BY <1>0, <1>6 DEF RemovalIgnored, TypeOK
    <2>2. UNCHANGED <<metaMap, object, quitting>>
      BY <2>1 DEF Disconnected, RemoveObjectInstance
    <2>3. TypeOK'
      BY <1>0, <1>1, <1>2, <2>2 DEF TypeOK
    <2>4. \A e \in Entry : Holders(e)' = Holders(e)
      BY <1>5, <1>6 DEF Holders
    <2>5. RefCountExact'
      BY <2>2, <2>4, SameHolders DEF IInv
    <2>6. ManagerInv'
      BY <1>0, <2>2 DEF ManagerInv, ManagerOK, Owned
    <2>7. EndPointInv'
      BY <1>1, <2>2 DEF IInv, EndPointInv, Owned
    <2>8. IdleServiceQuits'
      BY <2>2 DEF IInv, IdleServiceQuits, NoInstances
    <2>9. UnregisteredInv'
      BY <2>2 DEF IInv, UnregisteredInv
    <2>10. QED
      BY <1>3, <1>4, <2>3, <2>5, <2>6, <2>7, <2>8, <2>9 DEF IInv
  <1>7. CASE entry[c] # NoEntry
    <2> DEFINE e == entry[c]
    <2>1. /\ e \in Entry /\ e \in registered
          /\ service[c] = instanceId[c]
          /\ instanceId[c] \in Owned(metaMap[e])
          /\ instanceId[c] \in Obj
      BY <1>0, <1>7 DEF IInv, EndPointInv, TypeOK, ManagerInv, ManagerOK
    <2>2. c \in Holders(e) /\ Holders(e) # {}
      BY DEF Holders
    <2>3. e \in GlobalEntry => metaMap[e].globalRefCount > 0
      <3>1. SUFFICES ASSUME e \in GlobalEntry PROVE metaMap[e].globalRefCount > 0
        OBVIOUS
      <3>2. Cardinality(Holders(e)) # 0
        BY <2>2, HoldersFinite, FS_EmptySet
      <3>3. QED
        BY <3>1, <3>2, HoldersFinite DEF IInv, RefCountExact
    <2>4. ~RemovalIgnored(metaMap, e)
      BY <1>0, <2>1, <2>3 DEF RemovalIgnored, TypeOK, Descriptor
    <2>5. RemoveObjectInstance(metaMap, object, e, instanceId[c])
      BY DEF Disconnected
    <2>6. metaMap \in [Entry -> Descriptor]
          /\ object \in [Obj -> {"free", "live", "doomed"}]
          /\ ManagerOK(metaMap, object) /\ quitting \in BOOLEAN
      BY <1>0 DEF TypeOK, ManagerInv
    <2>7. /\ metaMap' \in [Entry -> Descriptor]
          /\ object' \in [Obj -> {"free", "live", "doomed"}]
          /\ quitting' \in BOOLEAN
          /\ ManagerInv'
          /\ \A f \in Entry \ {e} : metaMap'[f] = metaMap[f]
          /\ e \in GlobalEntry =>
               /\ metaMap'[e].globalRefCount = metaMap[e].globalRefCount - 1
               /\ metaMap[e].globalRefCount > 1 =>
                    Owned(metaMap'[e]) = Owned(metaMap[e])
          /\ e \notin GlobalEntry =>
               Owned(metaMap'[e]) = Owned(metaMap[e]) \ {instanceId[c]}
          /\ QuitOnLast /\ NoInstances(metaMap') => quitting'
      BY <2>1, <2>4, <2>5, <2>6, RemoveOK
    <2>8. TypeOK'
      BY <1>0, <1>1, <1>2, <2>7 DEF TypeOK
    <2>9. RefCountExact'
      <3>1. ASSUME NEW f \in GlobalEntry
            PROVE  metaMap'[f].globalRefCount = Cardinality(Holders(f)')
        <4>1. CASE f = e
          <5>1. Cardinality(Holders(e) \ {c}) = Cardinality(Holders(e)) - 1
            BY <2>2, HoldersFinite, FS_RemoveElement
          <5>2. QED
            BY <1>5, <2>1, <2>7, <3>1, <4>1, <5>1 DEF IInv, RefCountExact
        <4>2. CASE f # e
          <5>1. Holders(f)' = Holders(f)
            BY <1>5, <3>1, <4>2 DEF Holders
          <5>2. QED
            BY <2>7, <3>1, <4>2, <5>1 DEF IInv, RefCountExact
        <4>3. QED
          BY <4>1, <4>2
      <3>2. QED
        BY <3>1 DEF RefCountExact
    <2>10. EndPointInv'
      <3>1. ASSUME NEW k \in Conn, phase'[k] = "open", entry[k] # NoEntry
            PROVE  service[k] \in Owned(metaMap'[entry[k]])
        <4>1. k # c /\ phase[k] = "open"
          BY <1>1, <3>1
        <4>2. /\ entry[k] \in Entry
              /\ service[k] = instanceId[k]
              /\ service[k] \in Owned(metaMap[entry[k]])
          BY <1>0, <3>1, <4>1 DEF IInv, EndPointInv, TypeOK
        <4>3. CASE entry[k] # e
          BY <2>7, <4>2, <4>3
        <4>4. CASE entry[k] = e /\ e \in GlobalEntry
          <5>1. k \in Holders(e) \ {c}
            BY <4>1, <4>4 DEF Holders
          <5>2. Cardinality(Holders(e) \ {c}) = Cardinality(Holders(e)) - 1
            BY <2>2, HoldersFinite, FS_RemoveElement
          <5>3. /\ Cardinality(Holders(e) \ {c}) # 0
                /\ Cardinality(Holders(e) \ {c}) \in Nat
            <6>1. IsFiniteSet(Holders(e) \ {c})
              BY HoldersFinite, FS_RemoveElement
            <6>2. QED
              BY <5>1, <6>1, FS_EmptySet, FS_CardinalityType
          <5>4. metaMap[e].globalRefCount > 1
            BY <4>4, <5>2, <5>3, HoldersFinite DEF IInv, RefCountExact
          <5>5. QED
            BY <2>7, <4>2, <4>4, <5>4
        <4>5. CASE entry[k] = e /\ e \notin GlobalEntry
          <5>1. instanceId[k] # instanceId[c]
            BY <2>1, <4>1, <4>5 DEF IInv, DistinctInv
          <5>2. QED
            BY <2>7, <4>2, <4>5, <5>1
        <4>6. QED
          BY <4>3, <4>4, <4>5
      <3>2. QED
        BY <1>1, <3>1 DEF IInv, EndPointInv
    <2>11. IdleServiceQuits'
      BY <2>7 DEF IdleServiceQuits
    <2>12. UnregisteredInv'
      BY <2>1, <2>7 DEF IInv, UnregisteredInv
    <2>13. QED
      BY <1>3, <1>4, <2>7, <2>8, <2>9, <2>10, <2>11, <2>12 DEF IInv
  <1>8. QED
    BY <1>6, <1>7

\* A request on an open connection finds its end point unserved.
LEMMA RequestFindsUnserved ==
  ASSUME IInv, NEW c \in Conn, phase[c] = "open", request[c] # NoEntry
  PROVE  /\ request[c] \in Entry
         /\ entry[c] = NoEntry
         /\ service[c] = NoObj
  BY DEF IInv, TypeOK, UnservedInv, EndPointInv

\* createObjectInstance followed at once by removeObjectInstance.
LEMMA RejectedInv ==
  ASSUME IInv, NEW c \in Conn, phase[c] = "open",
         NEW e \in Entry, request[c] = e,
         request' = [request EXCEPT ![c] = NoEntry],
         NEW o \in Obj, RequestRejected(c, e, o)
  PROVE  IInv'
  <1> USE InstancesAssumption
  <1> DEFINE m == AcquiredMap(e, o)
             objs == AcquiredObjects(o)
  <1>0. TypeOK /\ ManagerInv /\ e \in registered /\ Granted(e, o) /\ request[c] # NoEntry
    BY RequestFindsUnserved DEF IInv, RequestRejected, Granted
  <1>1. /\ m \in [Entry -> Descriptor]
        /\ objs \in [Obj -> {"free", "live", "doomed"}]
        /\ ManagerOK(m, objs)
        /\ Owned(m[e]) = Owned(metaMap[e]) \cup {o}
        /\ \A f \in Entry \ {e} : m[f] = metaMap[f]
        /\ e \in GlobalEntry => m[e].globalRefCount = metaMap[e].globalRefCount + 1
    BY <1>0, AcquireOK
  <1>2. ~RemovalIgnored(m, e)
    <2>1. e \in GlobalEntry => m[e].globalRefCount >= 1
      BY <1>0, <1>1 DEF TypeOK, Descriptor
    <2>2. QED
      BY <1>0, <1>1, <2>1 DEF RemovalIgnored, Descriptor
  <1>3. RemoveObjectInstance(m, objs, e, o)
    BY DEF RequestRejected
  <1>4. quitting \in BOOLEAN
    BY <1>0 DEF TypeOK
  <1>5. /\ metaMap' \in [Entry -> Descriptor]
        /\ object' \in [Obj -> {"free", "live", "doomed"}]
        /\ quitting' \in BOOLEAN
        /\ ManagerInv'
        /\ \A f \in Entry \ {e} : metaMap'[f] = m[f]
        /\ e \in GlobalEntry =>
             /\ metaMap'[e].globalRefCount = m[e].globalRefCount - 1
             /\ m[e].globalRefCount > 1 => Owned(metaMap'[e]) = Owned(m[e])
        /\ e \notin GlobalEntry => Owned(metaMap'[e]) = Owned(m[e]) \ {o}
        /\ QuitOnLast /\ NoInstances(metaMap') => quitting'
    BY <1>0, <1>1, <1>2, <1>3, <1>4, RemoveOK
  <1>6. /\ phase' = [phase EXCEPT ![c] = "closing"]
        /\ instanceId' = [instanceId EXCEPT ![c] = o]
        /\ service' = [service EXCEPT ![c] = o]
        /\ UNCHANGED <<registered, entry, client>> /\ served' = TRUE
    BY DEF RequestRejected
  <1>7. TypeOK'
    BY <1>0, <1>5, <1>6 DEF TypeOK, Phases
  <1>8. \A f \in Entry : Holders(f)' = Holders(f)
    BY <1>0, <1>6, RequestFindsUnserved DEF Holders, TypeOK
  <1>9. RefCountExact'
    <2>1. \A f \in GlobalEntry : metaMap'[f].globalRefCount = metaMap[f].globalRefCount
      BY <1>0, <1>1, <1>5 DEF TypeOK, Descriptor
    <2>2. QED
      BY <1>8, <2>1, SameHolders DEF IInv
  <1>10. EndPointInv'
    <2>1. ASSUME NEW k \in Conn, phase'[k] = "open", entry[k] # NoEntry
          PROVE  service[k] \in Owned(metaMap'[entry[k]])
      <3>1. k # c /\ phase[k] = "open"
        BY <1>0, <1>6, <2>1 DEF TypeOK
      <3>2. /\ entry[k] \in Entry
            /\ service[k] \in Owned(metaMap[entry[k]])
            /\ service[k] \in Obj
        BY <1>0, <2>1, <3>1 DEF IInv, EndPointInv, TypeOK, ManagerInv, ManagerOK
      <3>3. CASE entry[k] # e
        BY <1>1, <1>5, <3>2, <3>3
      <3>4. CASE entry[k] = e /\ e \in GlobalEntry
        <4>1. k \in Holders(e)
          BY <3>1, <3>4 DEF Holders
        <4>2. metaMap[e].globalRefCount \in Nat /\ metaMap[e].globalRefCount # 0
          BY <3>4, <4>1, HoldersFinite, FS_EmptySet DEF IInv, RefCountExact
        <4>3. m[e].globalRefCount > 1
          BY <1>1, <3>4, <4>2
        <4>4. QED
          BY <1>1, <1>5, <3>2, <3>4, <4>3
      <3>5. CASE entry[k] = e /\ e \notin GlobalEntry
        <4>1. object[o] = "free" /\ object[service[k]] = "live"
          BY <1>0, <3>2, <3>5 DEF Granted, Shared, ManagerInv, ManagerOK
        <4>2. QED
          BY <1>1, <1>5, <3>2, <3>5, <4>1
      <3>6. QED
        BY <3>3, <3>4, <3>5
    <2>2. \A k \in Conn : phase'[k] = "open" =>
            /\ k # c /\ phase[k] = "open"
            /\ service'[k] = service[k] /\ instanceId'[k] = instanceId[k]
      BY <1>0, <1>6 DEF TypeOK
    <2>3. QED
      BY <1>6, <2>1, <2>2 DEF IInv, EndPointInv
  <1>11. UnservedInv'
    BY <1>0, <1>6 DEF IInv, UnservedInv, TypeOK
  <1>12. DistinctInv'
    BY <1>0, <1>6 DEF IInv, DistinctInv, TypeOK
  <1>13. IdleServiceQuits'
    BY <1>5 DEF IdleServiceQuits
  <1>14. UnregisteredInv'
    BY <1>0, <1>1, <1>5, <1>6 DEF IInv, UnregisteredInv
  <1>15. QED
    BY <1>5, <1>7, <1>9, <1>10, <1>11, <1>12, <1>13, <1>14 DEF IInv

\* A new holder of the entry.
LEMMA AcceptedInv ==
  ASSUME IInv, NEW c \in Conn, phase[c] = "open",
         NEW e \in Entry, request[c] = e,
         request' = [request EXCEPT ![c] = NoEntry],
         NEW o \in Obj, RequestAccepted(c, e, o)
  PROVE  IInv'
  <1> USE InstancesAssumption
  <1> DEFINE m == AcquiredMap(e, o)
             objs == AcquiredObjects(o)
  <1>0. /\ TypeOK /\ ManagerInv /\ e \in registered /\ Granted(e, o)
        /\ request[c] # NoEntry /\ entry[c] = NoEntry
    BY RequestFindsUnserved DEF IInv, RequestAccepted, Granted
  <1>1. /\ m \in [Entry -> Descriptor]
        /\ objs \in [Obj -> {"free", "live", "doomed"}]
        /\ ManagerOK(m, objs)
        /\ Owned(m[e]) = Owned(metaMap[e]) \cup {o}
        /\ \A f \in Entry \ {e} : m[f] = metaMap[f]
        /\ e \in GlobalEntry => m[e].globalRefCount = metaMap[e].globalRefCount + 1
    BY <1>0, AcquireOK
  <1>2. /\ metaMap' = m /\ object' = objs
        /\ instanceId' = [instanceId EXCEPT ![c] = o]
        /\ service' = [service EXCEPT ![c] = o]
        /\ entry' = [entry EXCEPT ![c] = e]
        /\ client' = [client EXCEPT ![c] = IF @ = "waiting" THEN "served" ELSE @]
        /\ UNCHANGED <<registered, phase, quitting>> /\ served' = TRUE
    BY DEF RequestAccepted, Reply
  <1>3. TypeOK'
    BY <1>0, <1>1, <1>2 DEF TypeOK, ClientStates
  <1>4. /\ Holders(e)' = Holders(e) \cup {c}
        /\ c \notin Holders(e)
        /\ \A f \in Entry \ {e} : Holders(f)' = Holders(f)
    BY <1>0, <1>2 DEF Holders, TypeOK
  <1>5. RefCountExact'
    <2>1. Cardinality(Holders(e)') = Cardinality(Holders(e)) + 1
      BY <1>4, HoldersFinite, FS_AddElement
    <2>2. ASSUME NEW f \in GlobalEntry
          PROVE  metaMap'[f].globalRefCount = Cardinality(Holders(f)')
      <3>1. CASE f = e
        BY <1>1, <1>2, <2>1, <3>1 DEF IInv, RefCountExact
      <3>2. CASE f # e
        <4>1. Holders(f)' = Holders(f) /\ m[f] = metaMap[f]
          BY <1>1, <1>4, <3>2
        <4>2. QED
          BY <1>2, <4>1 DEF IInv, RefCountExact
      <3>3. QED
        BY <3>1, <3>2
    <2>3. QED
      BY <2>2 DEF RefCountExact
  <1>6. ManagerInv'
    BY <1>1, <1>2 DEF ManagerInv, ManagerOK, Owned
  <1>7. EndPointInv'
    <2>1. \A f \in Entry : Owned(metaMap[f]) \subseteq Owned(metaMap'[f])
      BY <1>1, <1>2
    <2>2. o \in Owned(metaMap'[e])
      BY <1>1, <1>2
    <2>3. ASSUME NEW k \in Conn, phase'[k] = "open"
          PROVE  IF entry'[k] = NoEntry
                 THEN service'[k] = NoObj
                 ELSE /\ entry'[k] \in registered'
                      /\ service'[k] = instanceId'[k]
                      /\ service'[k] \in Owned(metaMap'[entry'[k]])
      <3>1. CASE k = c
        <4>1. entry'[c] = e /\ service'[c] = o /\ instanceId'[c] = o
          BY <1>0, <1>2 DEF TypeOK
        <4>2. QED
          BY <1>0, <1>2, <2>2, <3>1, <4>1
      <3>2. CASE k # c
        <4>1. /\ phase[k] = "open" /\ entry'[k] = entry[k]
              /\ service'[k] = service[k] /\ instanceId'[k] = instanceId[k]
          BY <1>0, <1>2, <2>3, <3>2 DEF TypeOK
        <4>2. entry[k] # NoEntry => entry[k] \in Entry
          BY <1>0 DEF TypeOK
        <4>3. CASE entry[k] = NoEntry
          BY <4>1, <4>3 DEF IInv, EndPointInv
        <4>4. CASE entry[k] # NoEntry
          <5>1. /\ entry[k] \in registered
                /\ service[k] = instanceId[k]
                /\ service[k] \in Owned(metaMap[entry[k]])
            BY <4>1, <4>4 DEF IInv, EndPointInv
          <5>2. service[k] \in Owned(metaMap'[entry[k]])
            BY <2>1, <4>2, <4>4, <5>1
          <5>3. QED
            BY <1>2, <4>1, <4>4, <5>1, <5>2
        <4>5. QED
          BY <4>3, <4>4
      <3>3. QED
        BY <3>1, <3>2
    <2>4. \A k \in Conn : phase'[k] = "open" =>
            IF entry'[k] = NoEntry
            THEN service'[k] = NoObj
            ELSE /\ entry'[k] \in registered'
                 /\ service'[k] = instanceId'[k]
                 /\ service'[k] \in Owned(metaMap'[entry'[k]])
      BY <2>3
    <2>5. QED
      BY <2>4 DEF EndPointInv, Owned
  <1>8. UnservedInv'
    BY <1>0, <1>2 DEF IInv, UnservedInv, TypeOK
  <1>9. DistinctInv'
    <2>1. ASSUME NEW k \in Conn \ {c}, phase[k] = "open", entry[k] = e,
                 e \notin GlobalEntry
          PROVE  instanceId[k] # o
      <3>1. object[o] = "free"
        BY <1>0, <2>1 DEF Granted, Shared
      <3>2. service[k] = instanceId[k] /\ object[service[k]] = "live"
        BY <1>0, <2>1 DEF IInv, EndPointInv, ManagerInv, ManagerOK
      <3>3. QED
        BY <3>1, <3>2
    <2>2. QED
      BY <1>0, <1>2, <2>1 DEF IInv, DistinctInv, TypeOK
  <1>10. IdleServiceQuits'
    <2>1. ~NoInstances(metaMap')
      <3>1. o \in Owned(m[e])
        BY <1>1
      <3>2. CASE e \in GlobalEntry
        BY <1>0, <1>1, <1>2, <3>2 DEF NoInstances, TypeOK, Descriptor
      <3>3. CASE e \notin GlobalEntry
        <4>1. m[e].globalInstance = NoObj
          BY <1>0, <1>1, <3>3 DEF ManagerOK
        <4>2. QED
          BY <1>0, <1>2, <3>1, <4>1 DEF NoInstances, Owned
      <3>4. QED
        BY <3>2, <3>3
    <2>2. QED
      BY <2>1 DEF IdleServiceQuits
  <1>11. UnregisteredInv'
    BY <1>0, <1>1, <1>2 DEF IInv, UnregisteredInv
  <1>12. QED
    BY <1>3, <1>5, <1>6, <1>7, <1>8, <1>9, <1>10, <1>11 DEF IInv

\* Steps that leave the manager, the objects and the holders alone.
LEMMA SameManager ==
  ASSUME IInv, UNCHANGED <<registered, metaMap, object, quitting, served>>,
         \A e \in GlobalEntry : Holders(e)' = Holders(e),
         TypeOK', EndPointInv', UnservedInv', DistinctInv'
  PROVE  IInv'
  <1>1. RefCountExact'
    BY SameHolders DEF IInv
  <1>2. ManagerInv'
    BY DEF IInv, ManagerInv, ManagerOK, Owned
  <1>3. IdleServiceQuits'
    BY DEF IInv, IdleServiceQuits, NoInstances
  <1>4. UnregisteredInv'
    BY DEF IInv, UnregisteredInv
  <1>5. QED
    BY <1>1, <1>2, <1>3, <1>4 DEF IInv

LEMMA ObjectRequestInv ==
  ASSUME IInv, NEW c \in Conn, ObjectRequest(c)
  PROVE  IInv'
  <1> USE InstancesAssumption
  <1>0. /\ phase[c] = "open" /\ request[c] # NoEntry
        /\ request' = [request EXCEPT ![c] = NoEntry]
        /\ request[c] \in Entry /\ entry[c] = NoEntry /\ service[c] = NoObj
    BY RequestFindsUnserved DEF ObjectRequest
  <1>1. CASE RequestUnknown(c, request[c])
    <2>1. /\ UNCHANGED <<metaMap, object, registered, phase, entry, instanceId,
                         service, quitting, served>>
          /\ client' = [client EXCEPT ![c] = IF @ = "waiting" THEN "refused" ELSE @]
      BY <1>1 DEF RequestUnknown, Reply, manager, endPoints
    <2>2. TypeOK'
      BY <1>0, <2>1 DEF IInv, TypeOK, ClientStates
    <2>3. UnservedInv' /\ DistinctInv'
      BY <1>0, <2>1 DEF IInv, TypeOK, UnservedInv, DistinctInv
    <2>4. EndPointInv' /\ \A e \in GlobalEntry : Holders(e)' = Holders(e)
      BY <2>1 DEF IInv, EndPointInv, Owned, Holders
    <2>5. QED
      BY <2>1, <2>2, <2>3, <2>4, SameManager
  <1>2. CASE RequestWithoutCredentials(c, request[c])
    BY <1>0, <1>2, DisconnectedInv DEF RequestWithoutCredentials
  <1>3. CASE RequestNotConstructed(c, request[c])
    <2>1. /\ UNCHANGED <<metaMap, object, registered, phase, entry, quitting, served>>
          /\ client' = [client EXCEPT ![c] = IF @ = "waiting" THEN "refused" ELSE @]
          /\ instanceId' = [instanceId EXCEPT ![c] = NoObj]
          /\ service' = [service EXCEPT ![c] = NoObj]
      BY <1>3 DEF RequestNotConstructed, Reply, manager
    <2>2. TypeOK'
      BY <1>0, <2>1 DEF IInv, TypeOK, ClientStates
    <2>3. UnservedInv' /\ DistinctInv'
      BY <1>0, <2>1 DEF IInv, TypeOK, UnservedInv, DistinctInv
    <2>4. EndPointInv'
      BY <1>0, <2>1 DEF IInv, TypeOK, EndPointInv, Owned
    <2>5. \A e \in GlobalEntry : Holders(e)' = Holders(e)
      BY <2>1 DEF Holders
    <2>6. QED
      BY <2>1, <2>2, <2>3, <2>4, <2>5, SameManager
  <1>4. CASE \E o \in Obj : RequestRejected(c, request[c], o)
    BY <1>0, <1>4, RejectedInv
  <1>5. CASE \E o \in Obj : RequestAccepted(c, request[c], o)
    BY <1>0, <1>5, AcceptedInv
  <1>6. QED
    BY <1>1, <1>2, <1>3, <1>4, <1>5 DEF ObjectRequest

\* The steps of the clients and the backend that touch no object.
LEMMA ConnectionInv ==
  ASSUME IInv, NEW c \in Conn,
         \/ ClientConnect(c) \/ ClientLeave(c) \/ Accept(c) \/ DeleteEndPoint(c)
         \/ \E e \in Entry : ClientRequest(c, e)
  PROVE  IInv'
  <1> USE InstancesAssumption
  <1>0. TypeOK /\ EndPointInv /\ UnservedInv /\ DistinctInv
    BY DEF IInv
  <1>1. CASE ClientConnect(c)
    <2>1. /\ UNCHANGED <<metaMap, object, registered, entry, instanceId, service,
                         request, quitting, served>>
          /\ phase[c] = "none" /\ phase' = [phase EXCEPT ![c] = "backlog"]
          /\ client[c] = "off" /\ client' = [client EXCEPT ![c] = "connected"]
      BY <1>1 DEF ClientConnect, manager
    <2>2. TypeOK'
      BY <1>0, <2>1 DEF TypeOK, Phases, ClientStates
    <2>3. EndPointInv'
      BY <1>0, <2>1 DEF TypeOK, EndPointInv, Owned
    <2>4. UnservedInv' /\ DistinctInv'
      BY <1>0, <2>1 DEF TypeOK, UnservedInv, DistinctInv
    <2>5. \A e \in GlobalEntry : Holders(e)' = Holders(e)
      BY <1>0, <2>1 DEF Holders, TypeOK
    <2>6. QED
      BY <2>1, <2>2, <2>3, <2>4, <2>5, SameManager
  <1>2. CASE ClientLeave(c)
    <2>1. /\ UNCHANGED <<metaMap, object, registered, phase, entry, instanceId,
                         service, request, quitting, served>>
          /\ client' = [client EXCEPT ![c] = "gone"]
      BY <1>2 DEF ClientLeave, manager, endPoints
    <2>2. TypeOK'
      BY <1>0, <2>1 DEF TypeOK, ClientStates
    <2>3. EndPointInv' /\ DistinctInv'
      BY <1>0, <2>1 DEF EndPointInv, DistinctInv, Owned
    <2>4. UnservedInv'
      BY <1>0, <2>1 DEF TypeOK, UnservedInv
    <2>5. \A e \in GlobalEntry : Holders(e)' = Holders(e)
      BY <2>1 DEF Holders
    <2>6. QED
      BY <2>1, <2>2, <2>3, <2>4, <2>5, SameManager
  <1>3. CASE Accept(c)
    <2>1. /\ UNCHANGED <<metaMap, object, registered, entry, instanceId, service,
                         quitting, served>>
          /\ phase[c] = "backlog"
          /\ \/ /\ phase' = [phase EXCEPT ![c] = "open"]
                /\ UNCHANGED <<client, request>>
             \/ /\ phase' = [phase EXCEPT ![c] = "none"]
                /\ client' = [client EXCEPT ![c] = "off"]
                /\ request' = [request EXCEPT ![c] = NoEntry]
      BY <1>3 DEF Accept, manager, clients
    <2>2. TypeOK'
      BY <1>0, <2>1 DEF TypeOK, Phases, ClientStates
    <2>3. entry[c] = NoEntry /\ service[c] = NoObj
      BY <1>0, <2>1 DEF UnservedInv
    <2>4. EndPointInv'
      BY <1>0, <2>1, <2>3 DEF TypeOK, EndPointInv, Owned
    <2>5. UnservedInv'
      BY <1>0, <2>1, <2>3 DEF TypeOK, UnservedInv
    <2>6. DistinctInv'
      BY <1>0, <2>1, <2>3 DEF TypeOK, DistinctInv
    <2>7. \A e \in GlobalEntry : Holders(e)' = Holders(e)
      BY <1>0, <2>1, <2>3 DEF Holders, TypeOK
    <2>8. QED
      BY <2>1, <2>2, <2>4, <2>5, <2>6, <2>7, SameManager
  <1>4. CASE DeleteEndPoint(c)
    <2>1. /\ UNCHANGED <<metaMap, object, registered, quitting, served>>
          /\ phase[c] = "closing" /\ phase' = [phase EXCEPT ![c] = "none"]
          /\ entry' = [entry EXCEPT ![c] = NoEntry]
          /\ instanceId' = [instanceId EXCEPT ![c] = NoObj]
          /\ service' = [service EXCEPT ![c] = NoObj]
          /\ client' = [client EXCEPT ![c] = "off"]
          /\ request' = [request EXCEPT ![c] = NoEntry]
      BY <1>4 DEF DeleteEndPoint, manager
    <2>2. TypeOK'
      BY <1>0, <2>1 DEF TypeOK, Phases, ClientStates
    <2>3. EndPointInv'
      BY <1>0, <2>1 DEF TypeOK, EndPointInv, Owned
    <2>4. UnservedInv' /\ DistinctInv'
      BY <1>0, <2>1 DEF TypeOK, UnservedInv, DistinctInv
    <2>5. \A e \in GlobalEntry : Holders(e)' = Holders(e)
      BY <1>0, <2>1 DEF Holders, TypeOK
    <2>6. QED
      BY <2>1, <2>2, <2>3, <2>4, <2>5, SameManager
  <1>5. CASE \E e \in Entry : ClientRequest(c, e)
    <2>1. PICK e \in Entry : ClientRequest(c, e)
      BY <1>5
    <2>2. /\ UNCHANGED <<metaMap, object, registered, phase, entry, instanceId,
                         service, quitting, served>>
          /\ client[c] = "connected" /\ client' = [client EXCEPT ![c] = "waiting"]
          /\ request' = [request EXCEPT ![c] = e]
      BY <2>1 DEF ClientRequest, manager, endPoints
    <2>3. TypeOK'
      BY <1>0, <2>2 DEF TypeOK, ClientStates
    <2>4. EndPointInv' /\ DistinctInv'
      BY <1>0, <2>2 DEF EndPointInv, DistinctInv, Owned
    <2>5. UnservedInv'
      BY <1>0, <2>2 DEF TypeOK, UnservedInv
    <2>6. \A f \in GlobalEntry : Holders(f)' = Holders(f)
      BY <2>2 DEF Holders
    <2>7. QED
      BY <2>2, <2>3, <2>4, <2>5, <2>6, SameManager
  <1>6. QED
    BY <1>1, <1>2, <1>3, <1>4, <1>5

\* Registering an entry changes nothing it could disturb: its descriptor is
\* empty already.
LEMMA AddTypeInv ==
  ASSUME IInv, NEW e \in Entry, AddType(e)
  PROVE  IInv'
  <1>1. /\ registered' = registered \cup {e}
        /\ UNCHANGED <<object, phase, entry, instanceId, service, client, request,
                       quitting, served>>
    BY DEF AddType, endPoints, clients
  <1>2. metaMap' = metaMap
    BY DEF AddType, IInv, TypeOK, UnregisteredInv
  <1>3. TypeOK'
    BY <1>1, <1>2 DEF IInv, TypeOK
  <1>4. EndPointInv' /\ UnservedInv' /\ DistinctInv'
    BY <1>1, <1>2 DEF IInv, EndPointInv, UnservedInv, DistinctInv, Owned
  <1>5. RefCountExact'
    <2>1. \A f \in GlobalEntry : Holders(f)' = Holders(f)
      BY <1>1 DEF Holders
    <2>2. QED
      BY <1>2, <2>1, SameHolders DEF IInv
  <1>6. ManagerInv' /\ UnregisteredInv' /\ IdleServiceQuits'
    BY <1>1, <1>2 DEF IInv, ManagerInv, ManagerOK, Owned, UnregisteredInv,
                      IdleServiceQuits, NoInstances
  <1>7. QED
    BY <1>3, <1>4, <1>5, <1>6 DEF IInv

\* The manager has given up an object before it is deleted.
LEMMA DeleteObjectInv ==
  ASSUME IInv, NEW o \in Obj, DeleteObject(o)
  PROVE  IInv'
  <1>1. /\ UNCHANGED <<registered, metaMap, phase, entry, instanceId, service,
                       client, request, quitting, served>>
        /\ object[o] = "doomed" /\ object' = [object EXCEPT ![o] = "free"]
    BY DEF DeleteObject, endPoints, clients
  <1>2. TypeOK'
    BY <1>1 DEF IInv, TypeOK
  <1>3. ManagerInv'
    <2>1. \A e \in Entry : \A x \in Owned(metaMap[e]) : x \in Obj /\ object'[x] = "live"
      BY <1>1 DEF IInv, TypeOK, ManagerInv, ManagerOK
    <2>2. QED
      BY <1>1, <2>1 DEF IInv, ManagerInv, ManagerOK, Owned
  <1>4. EndPointInv' /\ UnservedInv' /\ DistinctInv'
    BY <1>1 DEF IInv, EndPointInv, UnservedInv, DistinctInv, Owned
  <1>5. RefCountExact'
    <2>1. \A f \in GlobalEntry : Holders(f)' = Holders(f)
      BY <1>1 DEF Holders
    <2>2. QED
      BY <1>1, <2>1, SameHolders DEF IInv
  <1>6. UnregisteredInv' /\ IdleServiceQuits'
    BY <1>1 DEF IInv, UnregisteredInv, IdleServiceQuits, NoInstances
  <1>7. QED
    BY <1>2, <1>3, <1>4, <1>5, <1>6 DEF IInv

LEMMA ExitProcessInv == ExitProcess => IInv'
  <1>1. ExitProcess => Init'
    BY DEF ExitProcess, Init
  <1>2. QED
    BY <1>1, InitInv, PTL

LEMMA StutterInv ==
  ASSUME IInv, UNCHANGED vars
  PROVE  IInv'
  <1>1. UNCHANGED <<registered, metaMap, object, phase, entry, instanceId, service,
                    client, request, quitting, served>>
    BY DEF vars, manager, endPoints, clients
  <1>2. TypeOK' /\ EndPointInv' /\ UnservedInv' /\ DistinctInv'
    BY <1>1 DEF IInv, TypeOK, EndPointInv, UnservedInv, DistinctInv, Owned
  <1>3. \A f \in GlobalEntry : Holders(f)' = Holders(f)
    BY <1>1 DEF Holders
  <1>4. QED
    BY <1>1, <1>2, <1>3, SameManager

LEMMA NextInv == IInv /\ [Next]_vars => IInv'
  <1> SUFFICES ASSUME IInv, [Next]_vars PROVE IInv'
    OBVIOUS
  <1>1. ASSUME NEW c \in Conn, ConnStep(c) PROVE IInv'
    <2>1. CASE ObjectRequest(c)
      BY <2>1, ObjectRequestInv
    <2>2. CASE HangUp(c)
      BY <2>2, DisconnectedInv DEF HangUp, clients
    <2>3. CASE \/ ClientConnect(c) \/ ClientLeave(c) \/ Accept(c) \/ DeleteEndPoint(c)
               \/ \E e \in Entry : ClientRequest(c, e)
      BY <2>3, ConnectionInv
    <2>4. QED
      BY <1>1, <2>1, <2>2, <2>3 DEF ConnStep
  <1>2. ASSUME NEW e \in Entry, AddType(e) PROVE IInv'
    BY <1>2, AddTypeInv
  <1>3. ASSUME NEW o \in Obj, DeleteObject(o) PROVE IInv'
    BY <1>3, DeleteObjectInv
  <1>4. CASE ExitProcess
    BY <1>4, ExitProcessInv
  <1>5. CASE UNCHANGED vars
    BY <1>5, StutterInv
  <1>6. QED
    BY <1>1, <1>2, <1>3, <1>4, <1>5 DEF Next

LEMMA InvariantHolds == Spec => []IInv
  BY InitInv, NextInv, PTL DEF Spec
-----------------------------------------------------------------------------
\* Every table of the manager and every end point keeps its shape.
THEOREM TypeCorrect == Spec => []TypeOK
  <1>1. IInv => TypeOK
    BY DEF IInv
  <1>2. QED
    BY <1>1, InvariantHolds, PTL

\* However many clients share an object, acquire, fail and hang up in whatever
\* order, globalRefCount is the number of open connections that hold it.
THEOREM CountsAreExact == Spec => []RefCountExact
  <1>1. IInv => RefCountExact
    BY DEF IInv
  <1>2. QED
    BY <1>1, InvariantHolds, PTL

\* An open connection never dispatches into an object given up by the manager.
THEOREM ServiceObjectsLive == Spec => []ServedByLiveObject
  <1>1. IInv => ServedByLiveObject
    <2> SUFFICES ASSUME IInv, NEW c \in Conn, phase[c] = "open", service[c] # NoObj
                 PROVE  object[service[c]] = "live"
      BY DEF ServedByLiveObject
    <2>1. entry[c] \in Entry /\ service[c] \in Owned(metaMap[entry[c]])
      BY DEF IInv, EndPointInv, TypeOK
    <2>2. QED
      BY <2>1 DEF IInv, ManagerInv, ManagerOK
  <1>2. QED
    BY <1>1, InvariantHolds, PTL

\* Two open connections serve one object only if it is a shared entry's.
THEOREM PrivacyHolds == Spec => []PrivateObjectsUnshared
  <1>1. IInv => PrivateObjectsUnshared
    <2> SUFFICES ASSUME IInv, NEW c1 \in Conn, NEW c2 \in Conn, c1 # c2,
                        phase[c1] = "open", phase[c2] = "open",
                        service[c1] # NoObj, service[c1] = service[c2]
                 PROVE  entry[c1] = entry[c2] /\ entry[c1] \in GlobalEntry
      BY DEF PrivateObjectsUnshared
    <2>1. /\ entry[c1] \in Entry /\ service[c1] \in Owned(metaMap[entry[c1]])
          /\ entry[c2] \in Entry /\ service[c2] \in Owned(metaMap[entry[c2]])
          /\ service[c1] = instanceId[c1] /\ service[c2] = instanceId[c2]
      BY DEF IInv, EndPointInv, TypeOK
    <2>2. entry[c1] = entry[c2]
      BY <2>1 DEF IInv, ManagerInv, ManagerOK
    <2>3. QED
      BY <2>1, <2>2 DEF IInv, DistinctInv
  <1>2. QED
    BY <1>1, InvariantHolds, PTL

\* A process that has served and holds no instance has been told to quit.
THEOREM IdleQuits == Spec => []IdleServiceQuits
  <1>1. IInv => IdleServiceQuits
    BY DEF IInv
  <1>2. QED
    BY <1>1, InvariantHolds, PTL

LEMMA NoInstancesNoHolders ==
  IInv /\ NoInstances(metaMap) => \A e \in Entry : Holders(e) = {}
  <1> SUFFICES ASSUME IInv, NoInstances(metaMap), NEW e \in Entry, NEW c \in Holders(e)
               PROVE  FALSE
    OBVIOUS
  <1>1. c \in Conn /\ phase[c] = "open" /\ entry[c] = e
    BY DEF Holders
  <1>2. service[c] \in Owned(metaMap[e])
    BY <1>1, InstancesAssumption DEF IInv, EndPointInv
  <1>3. metaMap[e].individualInstances = {} /\ metaMap[e].globalInstance = NoObj
    BY DEF NoInstances, IInv, ManagerInv, ManagerOK
  <1>4. QED
    BY <1>2, <1>3 DEF Owned

\* quit() is called only by removeObjectInstance finding nothing left.
LEMMA QuitsWithoutInstances ==
  ASSUME [Next]_vars, ~quitting, quitting'
  PROVE  NoInstances(metaMap)'
  <1>1. ASSUME NEW m, NEW objs, NEW e, NEW id, RemoveObjectInstance(m, objs, e, id)
        PROVE  NoInstances(metaMap')
    BY <1>1 DEF RemoveObjectInstance
  <1>2. ASSUME NEW c \in Conn, ConnStep(c) PROVE NoInstances(metaMap')
    <2>1. CASE ObjectRequest(c)
      <3>1. CASE RequestWithoutCredentials(c, request[c])
        BY <1>1, <3>1 DEF RequestWithoutCredentials, Disconnected
      <3>2. CASE \E o \in Obj : RequestRejected(c, request[c], o)
        BY <1>1, <3>2 DEF RequestRejected
      <3>3. CASE UNCHANGED quitting
        BY <3>3
      <3>4. QED
        BY <2>1, <3>1, <3>2, <3>3
        DEF ObjectRequest, RequestUnknown, RequestNotConstructed, RequestAccepted
    <2>2. CASE HangUp(c)
      BY <1>1, <2>2 DEF HangUp, Disconnected
    <2>3. CASE UNCHANGED quitting
      BY <2>3
    <2>4. QED
      BY <1>2, <2>1, <2>2, <2>3
      DEF ConnStep, ClientConnect, ClientLeave, ClientRequest, Accept, DeleteEndPoint
  <1>3. CASE UNCHANGED quitting
    BY <1>3
  <1>4. CASE ExitProcess
    BY <1>4 DEF ExitProcess
  <1>5. NoInstances(metaMap')
    BY <1>2, <1>3, <1>4 DEF Next, AddType, DeleteObject, vars
  <1>6. QED
    BY <1>5 DEF NoInstances

\* The process asks to quit only when no connection holds one of its objects.
THEOREM QuitsUnused == Spec => QuitOnlyWhenUnused
  <1>1. IInv /\ IInv' /\ [Next]_vars =>
          [~quitting /\ quitting' => \A e \in Entry : Holders(e)' = {}]_vars
    <2> SUFFICES ASSUME IInv', [Next]_vars, ~quitting, quitting'
                 PROVE  \A e \in Entry : Holders(e)' = {}
      OBVIOUS
    <2>1. NoInstances(metaMap)'
      BY QuitsWithoutInstances
    <2>2. (\A e \in Entry : Holders(e) = {})'
      BY <2>1, NoInstancesNoHolders, PTL
    <2>3. QED
      BY <2>2
  <1>2. QED
    BY <1>1, InvariantHolds, PTL DEF Spec, QuitOnlyWhenUnused
=============================================================================
