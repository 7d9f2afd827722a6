------------------------------ MODULE ServiceProxies ------------------------------
(***************************************************************************)
(* A service's object and its proxies over a socket: the object's signals  *)
(* are intercepted (ipc/qsignalintercepter.cpp), written by the end point  *)
(* of the service (ipc/objectendpoint.cpp) and activated at the proxy      *)
(* (ipc/proxyobject.cpp), whose methods are numbered otherwise than those  *)
(* of the service: QServiceProxyBase puts a signal of its own before them. *)
(*                                                                         *)
(* How a blocking call waits is the matter of BlockingCalls, and who holds *)
(* an object that of ServiceInstances: here an end point serves one proxy, *)
(* and the object is shared.                                               *)
(***************************************************************************)
EXTENDS Naturals, Sequences, FiniteSets

CONSTANTS Client,         \* one end point and one proxy for each
          Obj,            \* the objects the service may come to make
          QObjectMethods, \* names of the methods every object has, in order
          Own,            \* the methods of the service, in order
          Fault,          \* errorUnrecoverableIPCFault
          NoObj,
          MaxMessages     \* bound on the packages under way, each way

VARIABLES
  direct,     \* the service's class is derived from QObject itself
  object,     \* what has become of each object
  serving,    \* the object each end point has got
  endPoint,   \* the end points of the service
  intercept,  \* the intercepters of each end point
  dangling,   \* one was disconnected from an object that is no more
  toService, toClient,
  proxy,      \* the proxy of each client
  waiting,    \* the method that has to return
  timer, listening, told,   \* QServiceProxyBase: who asks for faults
  misled,     \* a call or a signal came to be another one, or did not fit
  up,         \* the service runs
  crashed     \* clients that read a meta object they have not got

vars == <<direct, object, serving, endPoint, intercept, dangling, toService, toClient, proxy,
          waiting, timer, listening, told, misled, up, crashed>>
serviceVars == <<object, serving, endPoint, intercept, dangling>>
faultVars == <<timer, listening, told>>

\* The methods of the service's class, and of the proxy's, in the order of their
\* indexes; the code counts from 0.
VoidMethod(name) == [name |-> name, kind |-> "void", arity |-> 0, known |-> TRUE]
QObjects == [i \in DOMAIN QObjectMethods |-> VoidMethod(QObjectMethods[i])]
Remote == QObjects \o Own
Local ==
  QObjects \o <<[name |-> Fault, kind |-> "signal", arity |-> 0, known |-> TRUE]>> \o Own
Base == Len(QObjectMethods) + 1

\* indexOfMethod: the most derived one of that signature, or none.
IndexOf(methods, name) ==
  LET found == {i \in DOMAIN methods : methods[i].name = name}
  IN IF found = {} THEN 0 ELSE CHOOSE i \in found : \A j \in found : j <= i

\* The tables of the constructor.  The method of index 0 gets no way back.
LocalToRemote == [i \in DOMAIN Local |-> IndexOf(Remote, Local[i].name)]
RemoteToLocal ==
  [r \in DOMAIN Remote |->
     LET back == {i \in DOMAIN Local : LocalToRemote[i] = r /\ r > 1}
     IN IF back = {} THEN 0 ELSE CHOOSE i \in back : \A j \in back : j <= i]

\* A service may have a signal of that name itself.
Shadowed == \E i \in DOMAIN Own : Own[i].name = Fault

OwnIndexes == {i \in DOMAIN Remote : i > Len(QObjectMethods)}
SignalIndexes == {i \in OwnIndexes : Remote[i].kind = "signal"}

Names == {Remote[i].name : i \in DOMAIN Remote} \cup {Fault}
None == "none"

TypeOK ==
  /\ direct \in BOOLEAN
  /\ object \in [Obj -> {"unborn", "alive", "doomed", "dead"}]
  /\ serving \in [Client -> Obj \cup {NoObj}]
  /\ endPoint \in [Client -> {"none", "open", "leaving", "gone"}]
  /\ intercept \in [Client -> {"none", "connected", "cleared", "gone"}]
  /\ dangling \in BOOLEAN
  /\ \A c \in Client : \A n \in DOMAIN toService[c] : toService[c][n].kind \in {"create", "call"}
  /\ \A c \in Client : \A n \in DOMAIN toClient[c] :
       toClient[c][n].kind \in {"created", "refused", "signal", "answer"}
  /\ proxy \in [Client -> {"none", "asked", "made", "ready", "failed", "deleted"}]
  /\ waiting \in [Client -> Names \cup {None}]
  /\ timer \in [Client -> BOOLEAN] /\ listening \in [Client -> BOOLEAN]
  /\ told \in [Client -> {"no", "due", "yes"}]
  /\ misled \in BOOLEAN /\ up \in BOOLEAN
  /\ crashed \subseteq Client

Init ==
  /\ direct \in BOOLEAN
  /\ object = [o \in Obj |-> "unborn"]
  /\ serving = [c \in Client |-> NoObj]
  /\ endPoint = [c \in Client |-> "none"]
  /\ intercept = [c \in Client |-> "none"]
  /\ dangling = FALSE
  /\ toService = [c \in Client |-> <<>>] /\ toClient = [c \in Client |-> <<>>]
  /\ proxy = [c \in Client |-> "none"]
  /\ waiting = [c \in Client |-> None]
  /\ timer = [c \in Client |-> FALSE] /\ listening = [c \in Client |-> FALSE]
  /\ told = [c \in Client |-> "no"]
  /\ misled = FALSE /\ up = TRUE /\ crashed = {}

Running(c) == c \notin crashed
-----------------------------------------------------------------------------
(***************************************************************************)
(* The service.                                                            *)
(***************************************************************************)
\* objectRequest: the shared object, or a new one; it is asked for with the end
\* point's intercepters set up before the answer is written.
ObjectRequest(c) ==
  /\ toService[c] # <<>> /\ Head(toService[c]).kind = "create" /\ endPoint[c] = "open"
  /\ toService' = [toService EXCEPT ![c] = Tail(@)]
  /\ \/ /\ \E o \in Obj :
             /\ IF \E a \in Obj : object[a] = "alive" THEN object[o] = "alive" ELSE object[o] = "unborn"
             /\ object' = [object EXCEPT ![o] = "alive"]
             /\ serving' = [serving EXCEPT ![c] = o]
        /\ intercept' = [intercept EXCEPT ![c] = "connected"]
        /\ toClient' = [toClient EXCEPT ![c] = Append(@, [kind |-> "created"])]
     \/ /\ toClient' = [toClient EXCEPT ![c] = Append(@, [kind |-> "refused"])]
        /\ UNCHANGED <<object, serving, intercept>>
  /\ UNCHANGED <<direct, endPoint, dangling, proxy, waiting, faultVars, misled, up, crashed>>

\* A signal of the object: the intercepters of each end point hear it, but for one
\* with an argument of an unknown type, which connectionTypes gives up on.
EmitSignal(o, i) ==
  /\ object[o] \in {"alive", "doomed"} /\ i \in SignalIndexes /\ Remote[i].known
  /\ \A c \in Client : Len(toClient[c]) < MaxMessages
  /\ toClient' = [c \in Client |->
       IF serving[c] = o /\ intercept[c] = "connected" /\ endPoint[c] = "open"
       THEN Append(toClient[c], [kind |-> "signal", index |-> i, name |-> Remote[i].name])
       ELSE toClient[c]]
  /\ UNCHANGED <<direct, serviceVars, toService, proxy, waiting, faultVars, misled, up, crashed>>

\* methodCall of the service: the method of that index, by its place.
MethodCall(c) ==
  /\ toService[c] # <<>> /\ Head(toService[c]).kind = "call" /\ endPoint[c] = "open"
  /\ toService' = [toService EXCEPT ![c] = Tail(@)]
  /\ LET m == Head(toService[c])
         method == Remote[m.index]
     IN /\ misled' = (misled \/ method.name # m.name \/ method.arity > 10)
        /\ toClient' = IF method.kind = "value"
                       THEN [toClient EXCEPT ![c] = Append(@, [kind |-> "answer", name |-> m.name])]
                       ELSE toClient
  /\ UNCHANGED <<direct, serviceVars, proxy, waiting, faultVars, up, crashed>>

\* disconnected: the object goes with the last that holds it, later, and the end
\* point too, in no order.
Disconnected(c) ==
  /\ endPoint[c] = "open" /\ (proxy[c] \in {"failed", "deleted"} \/ ~Running(c))
  /\ toService[c] = <<>>
  /\ endPoint' = [endPoint EXCEPT ![c] = "leaving"]
  /\ object' = IF serving[c] # NoObj /\ \A d \in Client \ {c} : serving[d] = serving[c] => endPoint[d] # "open"
               THEN [object EXCEPT ![serving[c]] = "doomed"] ELSE object
  /\ toClient' = [toClient EXCEPT ![c] = <<>>]
  /\ UNCHANGED <<direct, serving, intercept, dangling, toService, proxy, waiting, faultVars, misled, up, crashed>>

\* The object is deleted: destroyed() clears the intercepters' indexes.
ObjectDeleted(o) ==
  /\ object[o] = "doomed" /\ object' = [object EXCEPT ![o] = "dead"]
  /\ intercept' = [c \in Client |-> IF serving[c] = o /\ intercept[c] = "connected"
                                    THEN "cleared" ELSE intercept[c]]
  /\ UNCHANGED <<direct, serving, endPoint, dangling, toService, toClient, proxy, waiting,
                 faultVars, misled, up, crashed>>

\* The end point is deleted and its intercepters with it; those that have their
\* indexes still disconnect from the sender they remember.
EndPointDeleted(c) ==
  /\ endPoint[c] = "leaving" /\ endPoint' = [endPoint EXCEPT ![c] = "gone"]
  /\ intercept' = [intercept EXCEPT ![c] = "gone"]
  /\ dangling' = (dangling \/ (intercept[c] = "connected" /\ object[serving[c]] = "dead"))
  /\ UNCHANGED <<direct, object, serving, toService, toClient, proxy, waiting, faultVars, misled, up, crashed>>
-----------------------------------------------------------------------------
(***************************************************************************)
(* The clients.                                                            *)
(***************************************************************************)
\* proxyForService: the connection, and constructProxy's request.
Ask(c) ==
  /\ up /\ proxy[c] = "none" /\ proxy' = [proxy EXCEPT ![c] = "asked"]
  /\ endPoint' = [endPoint EXCEPT ![c] = "open"]
  /\ toService' = [toService EXCEPT ![c] = <<[kind |-> "create"]>>]
  /\ UNCHANGED <<direct, object, serving, intercept, dangling, toClient, waiting, faultVars, misled, up, crashed>>

\* methodCall of a client activates the signal of the index the table has.
Activates(m) == RemoteToLocal[m.index] # 0 /\ Local[RemoteToLocal[m.index]].name = m.name

\* newPackageReady of a client.  The proxy of an answered request has started its
\* timer, but the end point has it only when constructProxy returns: until then a
\* signal is dropped.
NewPackageReady(c) ==
  /\ Running(c) /\ proxy[c] \in {"asked", "made", "ready"} /\ toClient[c] # <<>>
  /\ toClient' = [toClient EXCEPT ![c] = Tail(@)]
  /\ LET m == Head(toClient[c]) IN
     /\ proxy' = CASE m.kind = "created" -> [proxy EXCEPT ![c] = "made"]
                   [] m.kind = "refused" -> [proxy EXCEPT ![c] = "failed"]
                   [] OTHER -> proxy
     /\ timer' = IF m.kind = "created" THEN [timer EXCEPT ![c] = TRUE] ELSE timer
     /\ misled' = (misled \/ (m.kind = "signal" /\ proxy[c] = "ready" /\ ~Activates(m)))
     /\ waiting' = IF m.kind = "answer" THEN [waiting EXCEPT ![c] = None] ELSE waiting
  /\ UNCHANGED <<direct, serviceVars, toService, listening, told, up, crashed>>

\* constructProxy returns, and proxyForService connects signals of the proxy: one
\* whose meta object could not be read has none.
ConstructReturns(c) ==
  /\ Running(c) /\ proxy[c] = "made"
  /\ IF direct THEN proxy' = [proxy EXCEPT ![c] = "ready"] /\ UNCHANGED crashed
     ELSE crashed' = crashed \cup {c} /\ UNCHANGED proxy
  /\ UNCHANGED <<direct, serviceVars, toService, toClient, waiting, faultVars, misled, up>>

\* QServiceProxy::qt_metacall of a method of the service: more than ten arguments,
\* or one of an unknown type, and nothing is sent.
Call(c, i) ==
  /\ Running(c) /\ proxy[c] = "ready" /\ waiting[c] = None /\ i \in DOMAIN Local /\ i > Base
  /\ Local[i].kind # "signal" /\ Local[i].arity <= 10 /\ Local[i].known
  /\ Len(toService[c]) < MaxMessages
  /\ toService' = [toService EXCEPT ![c] =
       Append(@, [kind |-> "call", index |-> LocalToRemote[i], name |-> Local[i].name])]
  /\ waiting' = [waiting EXCEPT ![c] = IF Local[i].kind = "value" THEN Local[i].name ELSE None]
  /\ UNCHANGED <<direct, serviceVars, toClient, proxy, faultVars, misled, up, crashed>>

\* connectNotify: who connects to the signal of the base class stops the timer.
Listen(c) ==
  /\ Running(c) /\ proxy[c] = "ready" /\ ~listening[c]
  /\ listening' = [listening EXCEPT ![c] = TRUE]
  /\ timer' = IF IndexOf(Local, Fault) = Base THEN [timer EXCEPT ![c] = FALSE] ELSE timer
  /\ UNCHANGED <<direct, serviceVars, toService, toClient, proxy, waiting, told, misled, up, crashed>>

\* timerEvent, a second after the proxy was made.
TimerEvent(c) ==
  /\ Running(c) /\ timer[c] /\ proxy[c] = "ready"
  /\ timer' = [timer EXCEPT ![c] = FALSE]
  /\ UNCHANGED <<direct, serviceVars, toService, toClient, proxy, waiting, listening, told, misled, up, crashed>>

\* The service dies, and nothing of it is destroyed in order.
ServiceDies ==
  /\ up /\ up' = FALSE
  /\ object' = [o \in Obj |-> "dead"]
  /\ endPoint' = [c \in Client |-> "gone"]
  /\ intercept' = [c \in Client |-> "gone"]
  /\ toService' = [c \in Client |-> <<>>]
  /\ UNCHANGED <<direct, serving, dangling, toClient, proxy, waiting, faultVars, misled, crashed>>

\* The client has read what there was and finds the connection lost.  The end
\* point's fault is connected to the proxy's by its name: the base class activates
\* its own; one of the service's name is called there.
IpcFault(c) ==
  /\ Running(c) /\ ~up /\ toClient[c] = <<>> /\ proxy[c] \in {"asked", "ready"} /\ told[c] = "no"
  /\ proxy' = [proxy EXCEPT ![c] = IF @ = "asked" THEN "failed" ELSE @]
  /\ told' = [told EXCEPT ![c] =
       IF listening[c] /\ IndexOf(Local, Fault) # Base THEN "due" ELSE "yes"]
  /\ waiting' = [waiting EXCEPT ![c] = None]
  /\ UNCHANGED <<direct, serviceVars, toService, toClient, timer, listening, misled, up, crashed>>

\* The application deletes its proxy, and with it the client's end point.
DeleteProxy(c) ==
  /\ Running(c) /\ proxy[c] = "ready" /\ waiting[c] = None
  /\ proxy' = [proxy EXCEPT ![c] = "deleted"]
  /\ timer' = [timer EXCEPT ![c] = FALSE]
  /\ UNCHANGED <<direct, serviceVars, toService, toClient, waiting, listening, told, misled, up, crashed>>

Next ==
  \/ \E c \in Client :
       \/ ObjectRequest(c) \/ MethodCall(c) \/ Disconnected(c) \/ EndPointDeleted(c)
       \/ Ask(c) \/ NewPackageReady(c) \/ ConstructReturns(c) \/ Listen(c) \/ TimerEvent(c)
       \/ IpcFault(c) \/ DeleteProxy(c)
       \/ \E i \in DOMAIN Local : Call(c, i)
  \/ ServiceDies
  \/ \E o \in Obj : ObjectDeleted(o) \/ \E i \in SignalIndexes : EmitSignal(o, i)

Spec == Init /\ [][Next]_vars
-----------------------------------------------------------------------------
\* What the service runs and what the proxy emits is what was asked for and what
\* was emitted, although the two number their methods differently, and no call
\* brings more arguments than the service has room for (proxyobject.cpp 66-116 and
\* 142-208, objectendpoint.cpp 481-612).
IndexesAgree == ~misled

\* No intercepter disconnects from an object that is no more, whichever of the
\* object and the end point goes first (qsignalintercepter.cpp 146-157 and 208-214).
DisconnectsLiving == ~dangling

\* Who connects to the fault signal in time gets no warning, and who is connected
\* to it is told of the fault (proxyobject.cpp 315-333 and 350-366), unless the
\* service has a signal of that name.
FaultsTold ==
  Shadowed \/ \A c \in Client : (listening[c] => ~timer[c]) /\ told[c] # "due"

\* A signal emitted once the object is given out reaches the proxy: but one that
\* comes with the answer is dropped.
\* (The code does not keep it; no run checks it.)
SignalsAreHeard ==
  [][\A c \in Client :
       (toClient[c] # <<>> /\ Head(toClient[c]).kind = "signal" /\ toClient'[c] = Tail(toClient[c]))
         => proxy[c] = "ready"]_vars

\* A client is told that a meta object is invalid; it goes on with it.
\* (The code does not keep it; no run checks it.)
NobodyCrashes == crashed = {}
=============================================================================
