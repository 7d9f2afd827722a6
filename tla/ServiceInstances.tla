--------------------------- MODULE ServiceInstances ---------------------------
(***************************************************************************)
(* The service side of the Qt Service Framework's IPC: the process-wide    *)
(* InstanceManager (ipc/instancemanager.cpp), the service-side             *)
(* ObjectEndPoint of each accepted connection (ipc/objectendpoint.cpp) and *)
(* the Unix socket backend that accepts and drops connections              *)
(* (ipc/qremoteserviceregister_unix_p.cpp).                                *)
(*                                                                         *)
(* A service process registers entries, listens on a socket, hands each    *)
(* client that asks for an entry a service object (one shared object per   *)
(* global entry, a fresh one per private request), takes the object back   *)
(* when the connection drops, and quits when the last object is gone; the  *)
(* next client starts it again.  All of it runs in one event loop, so a    *)
(* handler is one action; the deletions it posts (deleteLater) are actions *)
(* of their own, because anything may be dispatched before them.           *)
(***************************************************************************)
EXTENDS Naturals, FiniteSets

CONSTANTS Entry,        \* QRemoteServiceRegister::Entry values
          GlobalEntry,  \* the entries of instanceType GlobalInstance
          Conn,         \* client connections (a slot is reused once closed)
          Obj,          \* service objects; a QUuid stands for its object
          NoEntry, NoObj,
          QuitOnLast    \* quitOnLastInstanceClosed

ASSUME InstancesAssumption ==
  /\ GlobalEntry \subseteq Entry
  /\ NoEntry \notin Entry
  /\ NoObj \notin Obj
  /\ IsFiniteSet(Conn)
  /\ QuitOnLast \in BOOLEAN

VARIABLES
  registered,   \* keys of InstanceManager::metaMap
  metaMap,      \* the ServiceIdentDescriptor of each entry
  object,       \* each service object: free, live or doomed (deleteLater)
  phase,        \* each connection as the service sees it
  entry,        \* ObjectEndPointPrivate::entry
  instanceId,   \* ObjectEndPointPrivate::serviceInstanceId
  service,      \* ObjectEndPoint::service
  client,       \* each connection as its client sees it
  request,      \* the ObjectCreation package not yet read, or NoEntry
  quitting,     \* QCoreApplication::quit() was called
  served        \* an object was created since the process started (history)

manager == <<registered, metaMap, object>>
endPoints == <<phase, entry, instanceId, service>>
clients == <<client, request>>
vars == <<manager, endPoints, clients, quitting, served>>

Descriptor == [globalInstance : Obj \cup {NoObj},
               globalRefCount : Nat,
               individualInstances : SUBSET Obj]

EmptyDescriptor == [globalInstance |-> NoObj,
                    globalRefCount |-> 0,
                    individualInstances |-> {}]

Phases == {"none", "backlog", "open", "closing"}
ClientStates == {"off", "connected", "waiting", "served", "refused", "gone"}

TypeOK ==
  /\ registered \subseteq Entry
  /\ metaMap \in [Entry -> Descriptor]
  /\ object \in [Obj -> {"free", "live", "doomed"}]
  /\ phase \in [Conn -> Phases]
  /\ entry \in [Conn -> Entry \cup {NoEntry}]
  /\ instanceId \in [Conn -> Obj \cup {NoObj}]
  /\ service \in [Conn -> Obj \cup {NoObj}]
  /\ client \in [Conn -> ClientStates]
  /\ request \in [Conn -> Entry \cup {NoEntry}]
  /\ quitting \in BOOLEAN
  /\ served \in BOOLEAN

Init ==
  /\ registered = {}
  /\ metaMap = [e \in Entry |-> EmptyDescriptor]
  /\ object = [o \in Obj |-> "free"]
  /\ phase = [c \in Conn |-> "none"]
  /\ entry = [c \in Conn |-> NoEntry]
  /\ instanceId = [c \in Conn |-> NoObj]
  /\ service = [c \in Conn |-> NoObj]
  /\ client = [c \in Conn |-> "off"]
  /\ request = [c \in Conn |-> NoEntry]
  /\ quitting = FALSE
  /\ served = FALSE
-----------------------------------------------------------------------------
(***************************************************************************)
(* InstanceManager: what createObjectInstance and removeObjectInstance do  *)
(* to the descriptor of the entry.                                         *)
(***************************************************************************)
Shared(e) == e \in GlobalEntry /\ metaMap[e].globalInstance # NoObj

\* Mutant: a client that joins the shared object is not counted.
AcquireGlobalUncounted(d, o) ==
  IF d.globalInstance # NoObj
  THEN d
  ELSE [d EXCEPT !.globalInstance = o, !.globalRefCount = 1]

\* createObjectInstance of a global entry: join the shared object or become it.
AcquireGlobal(d, o) ==
  IF d.globalInstance # NoObj
  THEN [d EXCEPT !.globalRefCount = @ + 1]
  ELSE [globalInstance |-> o,
        globalRefCount |-> 1,
        individualInstances |-> d.individualInstances]

Acquire(d, e, o) ==
  IF e \in GlobalEntry
  THEN AcquireGlobal(d, o)
  ELSE [d EXCEPT !.individualInstances = @ \cup {o}]

\* Mutant: the last reference but one drops the object.
ReleaseGlobalEarly(d) ==
  IF d.globalRefCount <= 2
  THEN [d EXCEPT !.globalInstance = NoObj, !.globalRefCount = 0]
  ELSE [d EXCEPT !.globalRefCount = @ - 1]

\* removeObjectInstance of a global entry: the last reference drops the object.
ReleaseGlobal(d) ==
  IF d.globalRefCount = 1
  THEN [globalInstance |-> NoObj,
        globalRefCount |-> 0,
        individualInstances |-> d.individualInstances]
  ELSE [d EXCEPT !.globalRefCount = @ - 1]

Release(d, e, id) ==
  IF e \in GlobalEntry
  THEN IF d.globalRefCount < 1 THEN d ELSE ReleaseGlobal(d)
  ELSE [d EXCEPT !.individualInstances = @ \ {id}]

\* The objects a descriptor owns; removeObjectInstance dooms what it loses.
Owned(d) == d.individualInstances \cup ({d.globalInstance} \ {NoObj})

\* Mutant: private objects are forgotten in the total.
NoGlobalInstances(m) == \A e \in Entry : m[e].globalRefCount = 0

NoInstances(m) == \A e \in Entry : /\ m[e].globalRefCount = 0
                                   /\ m[e].individualInstances = {}

\* The early returns of removeObjectInstance, before allInstancesClosed().
RemovalIgnored(m, e) ==
  \/ e \notin registered
  \/ e \in GlobalEntry /\ m[e].globalRefCount < 1

\* Mutant: the total is taken before the removal.
RemoveObjectInstanceCountedFirst(m, objs, e, id) ==
  IF RemovalIgnored(m, e)
  THEN metaMap' = m /\ object' = objs /\ UNCHANGED quitting
  ELSE /\ metaMap' = [m EXCEPT ![e] = Release(@, e, id)]
       /\ object' = [o \in Obj |-> IF o \in Owned(m[e]) \ Owned(metaMap'[e])
                                   THEN "doomed" ELSE objs[o]]
       /\ quitting' = (quitting \/ (QuitOnLast /\ NoInstances(m)))

\* removeObjectInstance(e, id) on the map m, when known objects are objs.
RemoveObjectInstance(m, objs, e, id) ==
  IF RemovalIgnored(m, e)
  THEN /\ metaMap' = m
       /\ object' = objs
       /\ UNCHANGED quitting
  ELSE LET d == Release(m[e], e, id) IN
       /\ metaMap' = [m EXCEPT ![e] = d]
       /\ object' = [o \in Obj |-> IF o \in Owned(m[e]) \ Owned(d)
                                   THEN "doomed" ELSE objs[o]]
       /\ quitting' = (quitting \/ (QuitOnLast /\ NoInstances(metaMap')))

\* ObjectEndPoint::disconnected() on the service side: give the object of the
\* recorded entry back and delete the end point later.
Disconnected(c, m, objs) ==
  /\ RemoveObjectInstance(m, objs, entry[c], instanceId[c])
  /\ phase' = [phase EXCEPT ![c] = "closing"]
-----------------------------------------------------------------------------
(***************************************************************************)
(* Actions of the clients.                                                 *)
(***************************************************************************)
\* connect() finds the socket, which a service publishes once it has created an
\* entry; it may create more of them later.
ClientConnect(c) ==
  /\ client[c] = "off" /\ phase[c] = "none"
  /\ registered # {}
  /\ client' = [client EXCEPT ![c] = "connected"]
  /\ phase' = [phase EXCEPT ![c] = "backlog"]
  /\ UNCHANGED <<manager, entry, instanceId, service, request, quitting, served>>

\* constructProxy: one ObjectCreation package per connection.
ClientRequest(c, e) ==
  /\ client[c] = "connected"
  /\ client' = [client EXCEPT ![c] = "waiting"]
  /\ request' = [request EXCEPT ![c] = e]
  /\ UNCHANGED <<manager, endPoints, quitting, served>>

\* The proxy is deleted, the request timed out, or the client died.
ClientLeave(c) ==
  /\ client[c] \notin {"off", "gone"}
  /\ client' = [client EXCEPT ![c] = "gone"]
  /\ UNCHANGED <<manager, endPoints, request, quitting, served>>
-----------------------------------------------------------------------------
(***************************************************************************)
(* Actions of the service process.                                         *)
(***************************************************************************)
\* InstanceManager::addType, from QRemoteServiceRegister::createEntry.
AddType(e) ==
  /\ e \notin registered
  /\ registered' = registered \cup {e}
  /\ metaMap' = [metaMap EXCEPT ![e] = EmptyDescriptor]
  /\ UNCHANGED <<object, endPoints, clients, quitting, served>>

\* processIncoming: the security filter turns the client away or an end point
\* is made for it.
Accept(c) ==
  /\ phase[c] = "backlog"
  /\ \/ /\ phase' = [phase EXCEPT ![c] = "open"]
        /\ UNCHANGED clients
     \/ /\ phase' = [phase EXCEPT ![c] = "none"]
        /\ client' = [client EXCEPT ![c] = "off"]
        /\ request' = [request EXCEPT ![c] = NoEntry]
  /\ UNCHANGED <<manager, entry, instanceId, service, quitting, served>>

Reply(c, answer) ==
  client' = [client EXCEPT ![c] = IF @ = "waiting" THEN answer ELSE @]

\* Mutant: the request for an unknown entry is dropped without a response.
RequestUnknownUnanswered(c, e) ==
  /\ e \notin registered
  /\ UNCHANGED <<manager, endPoints, client, quitting, served>>

\* Unknown entry: a Failed response, nothing else.
RequestUnknown(c, e) ==
  /\ e \notin registered
  /\ Reply(c, "refused")
  /\ UNCHANGED <<manager, endPoints, quitting, served>>

\* No socket credentials: drop the end point without an answer.
RequestWithoutCredentials(c, e) ==
  /\ e \in registered
  /\ Disconnected(c, metaMap, object)
  /\ UNCHANGED <<registered, entry, instanceId, service, client, served>>

\* The constructor returned null.
RequestNotConstructed(c, e) ==
  /\ e \in registered /\ ~Shared(e)
  /\ Reply(c, "refused")
  /\ instanceId' = [instanceId EXCEPT ![c] = NoObj]
  /\ service' = [service EXCEPT ![c] = NoObj]
  /\ UNCHANGED <<manager, phase, entry, quitting, served>>

\* The object createObjectInstance hands out.
Granted(e, o) ==
  /\ e \in registered
  /\ IF Shared(e) THEN o = metaMap[e].globalInstance ELSE object[o] = "free"

AcquiredMap(e, o) == [metaMap EXCEPT ![e] = Acquire(@, e, o)]
AcquiredObjects(o) == [object EXCEPT ![o] = "live"]

\* The object's constructor, or verifyNewServiceClientCredentials on a shared
\* one, did not accept the client: take the object back and drop the client.
\* The end point's own entry is still unset when disconnected() runs.
RequestRejected(c, e, o) ==
  /\ Granted(e, o)
  /\ instanceId' = [instanceId EXCEPT ![c] = o]
  /\ service' = [service EXCEPT ![c] = o]
  /\ RemoveObjectInstance(AcquiredMap(e, o), AcquiredObjects(o), e, o)
  /\ phase' = [phase EXCEPT ![c] = "closing"]
  /\ served' = TRUE
  /\ UNCHANGED <<registered, entry, client>>

RequestAccepted(c, e, o) ==
  /\ Granted(e, o)
  /\ metaMap' = AcquiredMap(e, o)
  /\ object' = AcquiredObjects(o)
  /\ instanceId' = [instanceId EXCEPT ![c] = o]
  /\ service' = [service EXCEPT ![c] = o]
  /\ entry' = [entry EXCEPT ![c] = e]
  /\ Reply(c, "served")
  /\ served' = TRUE
  /\ UNCHANGED <<registered, phase, quitting>>

\* ObjectEndPoint::objectRequest
ObjectRequest(c) ==
  /\ phase[c] = "open" /\ request[c] # NoEntry
  /\ request' = [request EXCEPT ![c] = NoEntry]
  /\ \/ RequestUnknown(c, request[c])
     \/ RequestWithoutCredentials(c, request[c])
     \/ RequestNotConstructed(c, request[c])
     \/ \E o \in Obj : \/ RequestRejected(c, request[c], o)
                       \/ RequestAccepted(c, request[c], o)

\* Mutant: only a client that was given an object is noticed to hang up.
HangUpServed(c) ==
  /\ phase[c] = "open" /\ client[c] = "gone" /\ request[c] = NoEntry
  /\ service[c] # NoObj
  /\ Disconnected(c, metaMap, object)
  /\ UNCHANGED <<registered, entry, instanceId, service, clients, served>>

\* readIncoming reads end-of-file: terminateConnection(true) closes the socket
\* and emits disconnected().  What the client had sent is read before that.
HangUp(c) ==
  /\ phase[c] = "open" /\ client[c] = "gone" /\ request[c] = NoEntry
  /\ Disconnected(c, metaMap, object)
  /\ UNCHANGED <<registered, entry, instanceId, service, clients, served>>

\* The posted deletion of the end point; its destructor closes the socket.
DeleteEndPoint(c) ==
  /\ phase[c] = "closing"
  /\ phase' = [phase EXCEPT ![c] = "none"]
  /\ entry' = [entry EXCEPT ![c] = NoEntry]
  /\ instanceId' = [instanceId EXCEPT ![c] = NoObj]
  /\ service' = [service EXCEPT ![c] = NoObj]
  /\ client' = [client EXCEPT ![c] = "off"]
  /\ request' = [request EXCEPT ![c] = NoEntry]
  /\ UNCHANGED <<manager, quitting, served>>

\* The posted deletion of a service object.
DeleteObject(o) ==
  /\ object[o] = "doomed"
  /\ object' = [object EXCEPT ![o] = "free"]
  /\ UNCHANGED <<registered, metaMap, endPoints, clients, quitting, served>>

\* The event loop returns after quit() and the process ends: every socket
\* closes.  The next client of the location starts a new process.
ExitProcess ==
  /\ quitting
  /\ registered' = {}
  /\ metaMap' = [e \in Entry |-> EmptyDescriptor]
  /\ object' = [o \in Obj |-> "free"]
  /\ phase' = [c \in Conn |-> "none"]
  /\ entry' = [c \in Conn |-> NoEntry]
  /\ instanceId' = [c \in Conn |-> NoObj]
  /\ service' = [c \in Conn |-> NoObj]
  /\ client' = [c \in Conn |-> "off"]
  /\ request' = [c \in Conn |-> NoEntry]
  /\ quitting' = FALSE
  /\ served' = FALSE
-----------------------------------------------------------------------------
ConnStep(c) ==
  \/ ClientConnect(c) \/ ClientLeave(c)
  \/ \E e \in Entry : ClientRequest(c, e)
  \/ Accept(c) \/ ObjectRequest(c) \/ HangUp(c) \/ DeleteEndPoint(c)

Next ==
  \/ \E c \in Conn : ConnStep(c)
  \/ \E e \in Entry : AddType(e)
  \/ \E o \in Obj : DeleteObject(o)
  \/ ExitProcess

\* The event loop polls every socket and runs every posted event; clients owe
\* nothing.
Fairness ==
  /\ \A c \in Conn : /\ WF_vars(Accept(c))
                     /\ WF_vars(ObjectRequest(c))
                     /\ WF_vars(HangUp(c))
                     /\ WF_vars(DeleteEndPoint(c))
  /\ \A o \in Obj : WF_vars(DeleteObject(o))
  /\ WF_vars(ExitProcess)

Spec == Init /\ [][Next]_vars
FairSpec == Spec /\ Fairness
-----------------------------------------------------------------------------
(***************************************************************************)
(* Properties.                                                             *)
(***************************************************************************)
Holders(e) == {c \in Conn : phase[c] = "open" /\ entry[c] = e}

\* The reference count of a shared object is the number of open connections
\* that were given it: acquiring, being rejected, failing and hanging up in any
\* order never leave a count too high (the object and the process never end)
\* or too low (the object is deleted under a client).
RefCountExact ==
  \A e \in GlobalEntry : metaMap[e].globalRefCount = Cardinality(Holders(e))

\* No open end point dispatches calls into an object that is deleted or that
\* the manager has posted for deletion.
ServedByLiveObject ==
  \A c \in Conn :
    phase[c] = "open" /\ service[c] # NoObj => object[service[c]] = "live"

\* A private object serves one connection only, and never another entry's.
PrivateObjectsUnshared ==
  \A c1, c2 \in Conn :
    /\ c1 # c2 /\ phase[c1] = "open" /\ phase[c2] = "open"
    /\ service[c1] # NoObj /\ service[c1] = service[c2]
    => entry[c1] = entry[c2] /\ entry[c1] \in GlobalEntry

\* Once it has served, a process without instances is on its way out
\* (quitOnLastInstanceClosed): no order of closing misses the last one.
IdleServiceQuits ==
  QuitOnLast /\ served /\ NoInstances(metaMap) => quitting

\* The process never asks to quit while a connection holds one of its objects.
QuitOnlyWhenUnused ==
  [][~quitting /\ quitting' => \A e \in Entry : Holders(e)' = {}]_vars

\* A client that asked for an object is answered or sees the connection close.
RequestsSettled ==
  \A c \in Conn : client[c] = "waiting" ~> client[c] # "waiting"

\* The object of a client that left is eventually deleted or handed on.
LeftClientsReclaimed ==
  \A c \in Conn : client[c] = "gone" ~> phase[c] = "none"
=============================================================================
