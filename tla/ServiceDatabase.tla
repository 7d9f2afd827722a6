---------------------------- MODULE ServiceDatabase ----------------------------
(***************************************************************************)
(* One service database file (servicedatabase.cpp): the implementations of *)
(* interfaces by services, and which implementation is the default of each *)
(* interface.  Every operation is one SQL transaction, so one action, on   *)
(* the file all processes share; one that fails is rolled back and changes *)
(* nothing, so its failures are the negations of the guards here.          *)
(*                                                                         *)
(* A row joins the Interface and Service tables.  The ID of a service is   *)
(* its location, since no two services share one.  A default may name an   *)
(* ID that no row has: in the user's database it refers to the system's.   *)
(***************************************************************************)
EXTENDS Integers, FiniteSets

CONSTANTS Location, Service, Interface,
          Version,  \* majorVersion and minorVersion as one number
          Id,       \* the IDs of interface rows (QUuid)
          NoId,
          MetaData  \* the services' XML files: ServiceMetaDataResults

ASSUME DatabaseAssumption ==
  /\ Version \subseteq Int
  /\ NoId \notin Id
  /\ MetaData \subseteq [location : Location,
                         service : Service,
                         interfaces : SUBSET (Interface \X Version)]
  /\ \A r \in MetaData : IsFiniteSet(r.interfaces) /\ r.interfaces # {}

VARIABLES rows, defaults

databaseVars == <<rows, defaults>>

Row == [id : Id, location : Location, service : Service,
        interface : Interface, version : Version]

TypeOK ==
  /\ rows \subseteq Row
  /\ IsFiniteSet(rows)
  /\ defaults \in [Interface -> Id \cup {NoId}]

Init ==
  /\ rows = {}
  /\ defaults = [i \in Interface |-> NoId]
-----------------------------------------------------------------------------
IdsOf(R) == {r.id : r \in R}

\* interfaceDefault: the default is there and is one of this database.  One that
\* is not is external (ExternalIfaceIDFound); NoId is no default (NotFound).
DefaultFound(i) == defaults[i] \in IdsOf(rows)

\* getInterfaces
Implementing(R, i) == {r \in R : r.interface = i}

\* The rows of the highest version: ORDER BY VerMaj DESC, VerMin DESC, and
\* latestDescriptor; which of several comes first is not determined.
Latest(R) == {r \in R : \A q \in R : q.version <= r.version}

\* getInterfaceID: the implementation a descriptor describes.
Find(R, s, i, v) ==
  {r \in R : r.service = s /\ r.interface = i /\ r.version = v}

\* Mutant: only the location is checked.
RegistrableAnew(meta) == \A r \in rows : r.location # meta.location

\* LocationAlreadyRegistered and IfaceImplAlreadyRegistered.
Registrable(meta) ==
  /\ \A r \in rows : r.location # meta.location
  /\ \A iv \in meta.interfaces : Find(rows, meta.service, iv[1], iv[2]) = {}

\* The rows insertInterfaceData adds, with IDs newly drawn.
NewRows(meta, ids) ==
  {[id |-> ids[iv], location |-> meta.location, service |-> meta.service,
    interface |-> iv[1], version |-> iv[2]] : iv \in meta.interfaces}

FreshIds(meta, ids) ==
  /\ ids \in [meta.interfaces -> Id]
  /\ \A x, y \in meta.interfaces : ids[x] = ids[y] => x = y
  /\ \A x \in meta.interfaces :
       /\ ids[x] \notin IdsOf(rows)
       /\ \A i \in Interface : defaults[i] # ids[x]

\* The latest implementation in the metadata becomes the default of every
\* interface that has none.
DefaultsWith(new) ==
  {d \in [Interface -> Id \cup {NoId}] :
     \A i \in Interface :
       IF defaults[i] = NoId /\ Implementing(new, i) # {}
       THEN d[i] \in IdsOf(Latest(Implementing(new, i)))
       ELSE d[i] = defaults[i]}

\* Mutant: a lost default is deleted without a successor.
DefaultsDeleted(lost, left) ==
  {[i \in Interface |-> IF defaults[i] \in IdsOf(lost) THEN NoId ELSE defaults[i]]}

\* A default that named a deleted row goes to the latest implementation left.
DefaultsWithout(lost, left) ==
  {d \in [Interface -> Id \cup {NoId}] :
     \A i \in Interface :
       IF defaults[i] \notin IdsOf(lost) THEN d[i] = defaults[i]
       ELSE IF Implementing(left, i) = {} THEN d[i] = NoId
       ELSE d[i] \in IdsOf(Latest(Implementing(left, i)))}

RegisterService(meta, ids) ==
  /\ Registrable(meta) /\ FreshIds(meta, ids)
  /\ rows' = rows \cup NewRows(meta, ids)
  /\ defaults' \in DefaultsWith(NewRows(meta, ids))

\* Every service of that name goes, at whatever location.
UnregisterService(s) ==
  LET lost == {r \in rows : r.service = s} IN
  /\ lost # {}
  /\ rows' = rows \ lost
  /\ defaults' \in DefaultsWithout(lost, rows \ lost)

\* setInterfaceDefault with a descriptor of this database.
SetInterfaceDefault(s, i, v) ==
  \E r \in Find(rows, s, i, v) :
    /\ defaults' = [defaults EXCEPT ![i] = r.id]
    /\ UNCHANGED rows

\* setInterfaceDefault with the ID of a row of another database.
SetExternalDefault(i, id) ==
  /\ defaults' = [defaults EXCEPT ![i] = id]
  /\ UNCHANGED rows

\* removeExternalDefaultServiceInterface; IfaceIDNotExternal otherwise.
RemoveExternalDefault(id) ==
  /\ id \notin IdsOf(rows)
  /\ defaults' = [i \in Interface |-> IF defaults[i] = id THEN NoId ELSE defaults[i]]
  /\ UNCHANGED rows

\* externalDefaultsInfo
ExternalDefaults ==
  {<<i, defaults[i]>> : i \in {j \in Interface : defaults[j] \notin IdsOf(rows) \cup {NoId}}}
-----------------------------------------------------------------------------
\* A database nobody refers out of: the system's.
Next ==
  \/ \E meta \in MetaData : \E ids \in [meta.interfaces -> Id] : RegisterService(meta, ids)
  \/ \E s \in Service : UnregisterService(s)
  \/ \E s \in Service, i \in Interface, v \in Version : SetInterfaceDefault(s, i, v)

Spec == Init /\ [][Next]_databaseVars
-----------------------------------------------------------------------------
\* A service never implements a version of an interface twice, even when it is
\* registered from several locations, and an ID names one row.
ImplementationsUnique ==
  /\ \A q, r \in rows :
       /\ q.service = r.service /\ q.interface = r.interface /\ q.version = r.version
       => q = r
  /\ \A q, r \in rows : q.id = r.id => q = r
  /\ \A q, r \in rows : q.location = r.location => q.service = r.service

\* Where nothing refers out, the default of an interface is one of its own
\* implementations, and an implemented interface always has one: whatever was
\* registered, made the default and unregistered before.
DefaultsComplete ==
  \A i \in Interface :
    IF Implementing(rows, i) = {}
    THEN defaults[i] = NoId
    ELSE defaults[i] \in IdsOf(Implementing(rows, i))
=============================================================================
