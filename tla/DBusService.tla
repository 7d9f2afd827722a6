----------------------------- MODULE DBusService -----------------------------
(***************************************************************************)
(* The D-Bus backend of the service framework's IPC: DBusSession and       *)
(* DBusEndPoint (ipc/qremoteserviceregister_dbus_p.h, .cpp) and the        *)
(* ObjectEndPoint of either side (ipc/objectendpoint_dbus.cpp).            *)
(*                                                                         *)
(* Only the request for an object travels through end points: afterwards a *)
(* proxy calls the object the service has put on the bus, at a path made   *)
(* of its instance id.  A client asks the session to be let in (a blocking *)
(* call), writes its request (an asynchronous one) and waits, without a    *)
(* limit, for the answer the session broadcasts; a proxy that is destroyed *)
(* tells whoever has the name of the service by then.  Nobody tells the    *)
(* session when a client dies.                                             *)
(***************************************************************************)
EXTENDS Integers, FiniteSets, Sequences

CONSTANTS Entry,        \* the entries a session exists for (one a bus name)
          GlobalEntry,  \* those of instanceType GlobalInstance
          Client,       \* client processes; a bus name stands for each
          Proxy,        \* the proxies the clients ask for
          Owner,        \* the client of each proxy
          Obj,          \* service objects; an instance id stands for each
          NoEntry, NoObj,
          QuitOnLast    \* quitOnLastInstanceClosed

VARIABLES
  up,          \* the service process runs
  session,     \* QRemoteServiceRegisterDBusPrivate::session
  accept,      \* DBusSession::m_accept
  clientList,  \* ObjectEndPointPrivate::clientList: the entry of each client
  shared,      \* the global instance of each entry and its count
  private,     \* the private instances of each entry
  paths,       \* the objects registered on the bus
  created,     \* the instance ids given out so far
  alive,       \* the clients that run
  requests,    \* packages written by each client and not yet handled
  replies,     \* what the sessions broadcast: proxy and instance
  proxy,       \* what each proxy has come to
  entry,       \* the entry each proxy was asked for
  instance     \* ObjectEndPointPrivate::serviceInstanceId of the client

manager == <<shared, private, created>>
service == <<up, session, accept, clientList, paths, manager>>
clients == <<alive, requests, replies, proxy, entry, instance>>
vars == <<service, clients>>

ProxyStates == {"none", "waiting", "bound", "released", "refused", "fault"}

NoClient == [id |-> NoObj, ref |-> 0]

TypeOK ==
  /\ up \in BOOLEAN
  /\ session \in Entry
  /\ accept \in [Entry -> BOOLEAN]
  /\ clientList \in [Entry -> [Client -> [id : Obj \cup {NoObj}, ref : Int]]]
  /\ shared \in [Entry -> [id : Obj \cup {NoObj}, count : Nat]]
  /\ private \in [Entry -> SUBSET Obj]
  /\ paths \subseteq Obj
  /\ created \subseteq Obj
  /\ alive \subseteq Client
  /\ requests \in [Client -> Seq(Proxy)]
  /\ replies \subseteq [proxy : Proxy, id : Obj \cup {NoObj}]
  /\ proxy \in [Proxy -> ProxyStates]
  /\ entry \in [Proxy -> Entry \cup {NoEntry}]
  /\ instance \in [Proxy -> Obj \cup {NoObj}]

\* What a process that has created its end points starts from.  The sessions
\* are made in the order of a hash; the member keeps the last.
Fresh(last) ==
  /\ session' = last
  /\ accept' = [e \in Entry |-> TRUE]
  /\ clientList' = [e \in Entry |-> [c \in Client |-> NoClient]]
  /\ shared' = [e \in Entry |-> [id |-> NoObj, count |-> 0]]
  /\ private' = [e \in Entry |-> {}]
  /\ paths' = {}

Init ==
  /\ up = TRUE
  /\ session \in Entry
  /\ accept = [e \in Entry |-> TRUE]
  /\ clientList = [e \in Entry |-> [c \in Client |-> NoClient]]
  /\ shared = [e \in Entry |-> [id |-> NoObj, count |-> 0]]
  /\ private = [e \in Entry |-> {}]
  /\ paths = {}
  /\ created = {}
  /\ alive = Client
  /\ requests = [c \in Client |-> <<>>]
  /\ replies = {}
  /\ proxy = [p \in Proxy |-> "none"]
  /\ entry = [p \in Proxy |-> NoEntry]
  /\ instance = [p \in Proxy |-> NoObj]
-----------------------------------------------------------------------------
(***************************************************************************)
(* The instance manager, as the end points use it.                         *)
(***************************************************************************)
NoInstances(s, q) == \A e \in Entry : s[e].count = 0 /\ q[e] = {}

\* createObjectInstance: the shared object or a new one.
Grant(e, id) ==
  IF e \in GlobalEntry /\ shared[e].id # NoObj
  THEN /\ id = shared[e].id
       /\ shared' = [shared EXCEPT ![e].count = @ + 1]
       /\ UNCHANGED <<private, created>>
  ELSE /\ id \in Obj \ created
       /\ created' = created \cup {id}
       /\ IF e \in GlobalEntry
          THEN /\ shared' = [shared EXCEPT ![e] = [id |-> id, count |-> 1]]
               /\ UNCHANGED private
          ELSE /\ private' = [private EXCEPT ![e] = @ \cup {id}]
               /\ UNCHANGED shared

\* removeObjectInstance; instanceClosed() takes the object off the bus and
\* allInstancesClosed() ends the process.
RemoveInstance(e, id) ==
  LET s == IF e \in GlobalEntry
           THEN [shared EXCEPT ![e] = IF @.count = 1
                                      THEN [id |-> NoObj, count |-> 0]
                                      ELSE [id |-> @.id, count |-> @.count - 1]]
           ELSE shared
      q == IF e \in GlobalEntry THEN private
           ELSE [private EXCEPT ![e] = @ \ {id}]
  IN /\ shared' = s
     /\ private' = q
     /\ paths' = IF id \in q[e] \/ s[e].id = id THEN paths ELSE paths \ {id}
     /\ up' = ~(QuitOnLast /\ NoInstances(s, q))

\* The service process is gone: the bus tells the proxies that have an object.
\* A client that waits for one is not told.
Abandon == proxy' = [p \in Proxy |-> IF proxy[p] = "bound" THEN "fault"
                                     ELSE proxy[p]]
-----------------------------------------------------------------------------
(***************************************************************************)
(* A client asks for an object (proxyForService).  processIncoming blocks  *)
(* the client; the security filter decides and the verdict is kept in the  *)
(* session made last, whichever session was asked.                         *)
(***************************************************************************)
Accepted(verdict, last) == [accept EXCEPT ![last] = verdict]

ProcessIncoming(p, e, verdict) ==
  LET a == Accepted(verdict, session)
      exits == ~verdict /\ QuitOnLast /\ NoInstances(shared, private)
      asked == [proxy EXCEPT ![p] = IF a[e] THEN "waiting" ELSE "refused"]
  IN /\ up /\ proxy[p] = "none" /\ Owner[p] \in alive
     /\ accept' = a
     /\ entry' = [entry EXCEPT ![p] = e]
     /\ requests' = IF a[e]
                    THEN [requests EXCEPT ![Owner[p]] = Append(@, p)]
                    ELSE requests
     /\ up' = ~exits
     /\ proxy' = [q \in Proxy |-> IF exits /\ asked[q] = "bound" THEN "fault"
                                  ELSE asked[q]]
     /\ UNCHANGED <<session, clientList, manager, paths, alive, replies, instance>>

\* The bus starts the service for whoever calls its name: to ask for an object
\* (q_autostart), or with the closeIncoming() of a proxy that has lost its own.
Autostart ==
  /\ ~up
  /\ \E p \in Proxy : proxy[p] \in {"none", "fault"} /\ Owner[p] \in alive
  /\ up' = TRUE
  /\ requests' = [c \in Client |-> <<>>]
  /\ \E last \in Entry : Fresh(last)
  /\ UNCHANGED <<created, alive, replies, proxy, entry, instance>>
-----------------------------------------------------------------------------
(***************************************************************************)
(* The service answers a request (ObjectEndPoint::objectRequest).          *)
(***************************************************************************)
\* The answer leaves through the session, which drops it while it is shut.
Broadcast(p, id) ==
  replies' = IF accept[entry[p]]
             THEN replies \cup {[proxy |-> p, id |-> id]}
             ELSE replies

\* The client's record counts its requests and keeps the first instance; stale
\* releases make the count run below zero.
Joined(l, id) ==
  IF l = NoClient THEN [id |-> id, ref |-> 1] ELSE [l EXCEPT !.ref = @ + 1]

Asked(p) == /\ up
            /\ requests[Owner[p]] # <<>>
            /\ Head(requests[Owner[p]]) = p
            /\ requests' = [requests EXCEPT ![Owner[p]] = Tail(@)]

\* Mutant: a failure is not answered.
ObjectRefusedQuietly(p) == Asked(p) /\ UNCHANGED <<service, alive, replies, proxy, entry, instance>>

\* The object could not be made: a failed response.
ObjectRefused(p) ==
  /\ Asked(p)
  /\ Broadcast(p, NoObj)
  /\ UNCHANGED <<service, alive, proxy, entry, instance>>

\* The object is made and, its class not accepting the client, removed again: the
\* process may end, the answer sent.
ObjectRejected(p) ==
  LET e == entry[p]
      made == e \notin GlobalEntry \/ shared[e].id = NoObj IN
  /\ Asked(p)
  /\ IF made THEN \E id \in Obj \ created : created' = created \cup {id}
             ELSE UNCHANGED created
  /\ Broadcast(p, NoObj)
  /\ up' = ~(QuitOnLast /\ NoInstances(shared, private))
  /\ proxy' = [q \in Proxy |-> IF proxy[q] = "bound" /\ ~up' THEN "fault" ELSE proxy[q]]
  /\ UNCHANGED <<session, accept, clientList, shared, private, paths, alive, entry, instance>>

ObjectGranted(p) ==
  \E id \in Obj :
    /\ Asked(p)
    /\ Grant(entry[p], id)
    /\ paths' = paths \cup {id}
    /\ clientList' = [clientList EXCEPT ![entry[p]][Owner[p]] = Joined(@, id)]
    /\ Broadcast(p, id)
    /\ UNCHANGED <<up, session, accept, alive, proxy, entry, instance>>

\* The client side of objectRequest: the answer ends the wait.
ReadReply(r) ==
  /\ r \in replies
  /\ replies' = replies \ {r}
  /\ IF proxy[r.proxy] = "waiting" /\ Owner[r.proxy] \in alive
     THEN /\ proxy' = [proxy EXCEPT ![r.proxy] =
                         IF r.id = NoObj THEN "refused"
                         ELSE IF up /\ r.id \in paths THEN "bound" ELSE "fault"]
          /\ instance' = [instance EXCEPT ![r.proxy] = r.id]
     ELSE UNCHANGED <<proxy, instance>>
  /\ UNCHANGED <<service, alive, requests, entry>>
-----------------------------------------------------------------------------
(***************************************************************************)
(* A proxy is destroyed (closeIncoming, ObjectEndPoint::disconnected).     *)
(* The client's record loses a reference; its instance goes with the last, *)
(* and only when it is the one the destroyed proxy used: the process that  *)
(* is told may not be the one the proxy was from.                          *)
(***************************************************************************)
\* Mutant: the instance of the record goes, whatever the proxy used.
LastOfClientAnyInstance(l, id) == l.ref = 1

LastOfClient(l, id) == l.ref = 1 /\ l.id = id

Disconnected(e, c, id) ==
  LET l == clientList[e][c] IN
  IF LastOfClient(l, id)
  THEN /\ clientList' = [clientList EXCEPT ![e][c] = NoClient]
       /\ RemoveInstance(e, l.id)
  ELSE /\ clientList' = [clientList EXCEPT ![e][c] =
                           IF l = NoClient THEN l ELSE [l EXCEPT !.ref = @ - 1]]
       /\ UNCHANGED <<up, shared, private, paths>>

DestroyProxy(p) ==
  /\ proxy[p] \in {"bound", "fault"} /\ Owner[p] \in alive
  /\ IF up THEN Disconnected(entry[p], Owner[p], instance[p])
           ELSE UNCHANGED <<up, clientList, shared, private, paths>>
  /\ proxy' = [q \in Proxy |-> IF q = p THEN "released"
                               ELSE IF proxy[q] = "bound" /\ ~up' THEN "fault"
                               ELSE proxy[q]]
  /\ UNCHANGED <<session, accept, created, alive, requests, replies, entry, instance>>

\* A client process ends without destroying its proxies.
ClientDies(c) ==
  /\ c \in alive
  /\ alive' = alive \ {c}
  /\ proxy' = [p \in Proxy |-> IF Owner[p] = c THEN "released" ELSE proxy[p]]
  /\ UNCHANGED <<service, requests, replies, entry, instance>>

ServiceDies ==
  /\ up
  /\ up' = FALSE
  /\ Abandon
  /\ UNCHANGED <<session, accept, clientList, manager, paths,
                 alive, requests, replies, entry, instance>>
-----------------------------------------------------------------------------
Next ==
  \/ \E p \in Proxy, e \in Entry, verdict \in BOOLEAN : ProcessIncoming(p, e, verdict)
  \/ Autostart
  \/ \E p \in Proxy : ObjectRefused(p) \/ ObjectRejected(p) \/ ObjectGranted(p) \/ DestroyProxy(p)
  \/ \E r \in replies : ReadReply(r)
  \/ \E c \in Client : ClientDies(c)
  \/ ServiceDies

Spec == Init /\ [][Next]_vars

\* The event loops of both sides run; the object factory may fail but answers.
FairSpec ==
  /\ Spec
  /\ WF_vars(\E p \in Proxy : ObjectRefused(p) \/ ObjectRejected(p) \/ ObjectGranted(p))
  /\ WF_vars(\E r \in replies : ReadReply(r))
-----------------------------------------------------------------------------
Proxies(e, c) == {p \in Proxy : /\ proxy[p] = "bound"
                                /\ entry[p] = e /\ Owner[p] = c}

Instances(e) == private[e] \cup ({shared[e].id} \ {NoObj})

\* The object a proxy calls stays with the service and on the bus until the
\* proxy itself is destroyed, whatever its siblings, the other clients of a shared
\* object and the proxies an earlier process left behind do.
BoundServed ==
  \A p \in Proxy : proxy[p] = "bound" =>
    instance[p] \in Instances(entry[p]) \cap paths

\* A shared object counts at least the proxies that use it: neither it nor the
\* process goes before the last of them.
CountsCoverProxies ==
  \A e \in Entry : e \in GlobalEntry =>
    Cardinality({p \in Proxy : proxy[p] = "bound" /\ entry[p] = e}) <= shared[e].count

\* A client's record counts at least the proxies that live on it, so that its
\* instance goes with the last.
\* (The code does not keep it, a proxy of an earlier process releases the record of
\* the present one; no run checks it.)
RecordsCoverProxies ==
  up => \A e \in Entry, c \in Client :
          Cardinality(Proxies(e, c)) <= clientList[e][c].ref

\* A request the service has got ends the wait unless the service dies or its
\* session is shut meanwhile: the refusal of one client is what loses the answer
\* to another.
Pending(p) == up /\ \E i \in DOMAIN requests[Owner[p]] : requests[Owner[p]][i] = p

RequestsAnswered ==
  \A p \in Proxy :
    Pending(p) ~> \/ proxy[p] # "waiting"
                  \/ ~up
                  \/ ~accept[entry[p]]

\* When every client has shut down or released its objects, none is left
\* (the documentation of allInstancesClosed()).
\* (The code does not keep it; no run checks it.)
InstancesReleased ==
  /\ up
  /\ \A p \in Proxy : proxy[p] \in {"none", "released"}
  /\ \A c \in Client : requests[c] = <<>>
  => NoInstances(shared, private)
=============================================================================
