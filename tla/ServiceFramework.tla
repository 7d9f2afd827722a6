------------------------------ MODULE ServiceFramework ------------------------------
(***************************************************************************)
(* The parts of the service framework around its core share no state with  *)
(* one another in one process: the database of the services, its file and  *)
(* the watcher of that, the D-Bus backend and the calls it carries, the    *)
(* proxies over a socket, the service manager, the reader of service       *)
(* documents and the QML elements.  One specification holds them all:      *)
(* active says which one a behaviour is about, and the others stay idle.   *)
(***************************************************************************)
EXTENDS ServiceDatabase, Sequences

CONSTANTS
  \* of the D-Bus backend
  BusEntry, GlobalEntry, BusClient, BusProxy, OwnerOf, BusObj, NoEntry, QuitOnLast,
  \* of the database file
  Proc, Listener, FileService, MaxFiles, MaxFileChanges,
  \* of the service manager
  Application, ScopeOf, ServiceName, Plugin, Package, Generated, MaxOperations,
  \* of the service documents
  InterfaceName, DocumentVersion, MaxElements,
  \* of the QML elements
  LoaderName, LoaderDescriptor, MaxLoaderChanges,
  ListElement, ListDescriptor, Criteria, MaxListsChanges,
  \* of an object on the bus
  Plain, Custom, BusMethods, BusProperties, MaxSignals,
  \* of the proxies over a socket
  SocketClient, SocketObj, QObjectMethods, OwnMethods, Fault, MaxMessages,
  NoObj

VARIABLES
  active,
  up, session, accept, clientList, shared, private, paths, created, alive, requests,
  replies, proxy, entry, instance,
  file, disk, dir, conn, enabled, notifying, watched, dirWatch, monitored, events, known,
  reported, gap, fileChanges,
  managerRows, fresh, writable, loadable, installed, semaphore, pc, local, error, result,
  operations,
  calls, broken, rootRead, xmlVersion, serviceName, serviceLocation, serviceType,
  serviceInterfaces, latestIndex, serviceTags, interface, interfaceTags, latestError,
  outcome, elements,
  background, interfaceName, serviceDescriptor, asynchronous, loaderComponentComplete, status,
  serviceReply, serviceObject, serviceManager, orphans, abandoned, leaked, stack, lost,
  crashed, loaderChanges,
  element, registered, criterion, listsComponentComplete, monitor, manager, connections,
  signals, queued, list, owed, listsChanges,
  property, call, ran, busSignals, heard,
  direct, object, serving, endPoint, intercept, dangling, toService, toClient, socketProxy,
  waiting, timer, listening, told, misled, running, readNothing

DBus == INSTANCE DBusService
  WITH Entry <- BusEntry, Client <- BusClient, Proxy <- BusProxy, Owner <- OwnerOf,
       Obj <- BusObj
File == INSTANCE DatabaseFile
  WITH Service <- FileService, MaxChanges <- MaxFileChanges, changes <- fileChanges
Manager == INSTANCE ServiceManager
  WITH Manager <- Application, Name <- ServiceName, Location <- Plugin, rows <- managerRows
Meta == INSTANCE ServiceMetaData WITH Version <- DocumentVersion
Loader == INSTANCE ServiceLoader
  WITH Name <- LoaderName, Descriptor <- LoaderDescriptor, MaxChanges <- MaxLoaderChanges,
       componentComplete <- loaderComponentComplete, changes <- loaderChanges
Lists == INSTANCE ServiceLists
  WITH Element <- ListElement, Descriptor <- ListDescriptor, Reentrant <- FALSE,
       MaxChanges <- MaxListsChanges, componentComplete <- listsComponentComplete,
       changes <- listsChanges
Bus == INSTANCE ServiceMetaObjectDBus
  WITH Methods <- BusMethods, Properties <- BusProperties, signals <- busSignals
Proxies == INSTANCE ServiceProxies
  WITH Client <- SocketClient, Obj <- SocketObj, Own <- OwnMethods,
       proxy <- socketProxy, up <- running, crashed <- readNothing

\* A proxy belongs to one client, and a reply may hold no object.
ASSUME DBusAssumption ==
  /\ NoObj \notin BusObj /\ OwnerOf \in [BusProxy -> BusClient]
  /\ IsFiniteSet(BusProxy) /\ IsFiniteSet(BusClient)
ASSUME FileAssumption == Listener \in Proc /\ MaxFiles \in Nat /\ MaxFileChanges \in Nat
ASSUME ManagerAssumption ==
  /\ ScopeOf \in [Application -> Manager!Scope]
  /\ Package \subseteq [name : ServiceName, location : Plugin, ipc : BOOLEAN]
  /\ Generated \in [Manager!Scope -> SUBSET Package]
  /\ MaxOperations \in Nat
\* A manager of the user's scope uninstalls the plugin of a system's service it
\* cannot remove (qservicemanager.cpp 787-833): the managers are of one scope.
ASSUME OneScope == \A m, n \in Application : ScopeOf[m] = ScopeOf[n]
\* A plugin is told the name it is installed under, and serves one.
ASSUME PluginNamed ==
  \A p, q \in Package : ~p.ipc /\ ~q.ipc /\ p.location = q.location => p.name = q.name
\* Services the device comes with: serviceInitialized takes the mark off all that
\* have the name (servicedatabase.cpp 1709-1771), so none shares it.
ASSUME GeneratedOnce ==
  \A s, t \in Manager!Scope : \A p \in Generated[s], q \in Generated[t] :
    ~p.ipc /\ ~q.ipc /\ p.name = q.name => p.location = q.location
ASSUME MetaAssumption == DocumentVersion \subseteq Nat \X Nat /\ MaxElements \in Nat
ASSUME LoaderAssumption == MaxLoaderChanges \in Nat
ASSUME ListsAssumption ==
  /\ ListElement \subseteq {"ServiceFilter", "ServiceList"}
  /\ Criteria \subseteq SUBSET ListDescriptor /\ MaxListsChanges \in Nat
\* The types are names of their own, and a signature is what tells methods apart.
ASSUME BusAssumption ==
  /\ "QVariant" \notin Plain \cup Custom /\ "QDBusVariant" \notin Plain
  /\ "" \notin Plain \cup Custom
  /\ \A m \in BusMethods : /\ m.params \in Seq(Plain \cup Custom \cup {"QVariant"})
                           /\ m.ret \in Plain \cup Custom \cup {"QVariant", "void"}
  /\ \A m, n \in BusMethods : m.kind = n.kind /\ m.name = n.name /\ m.params = n.params => m = n
\* A name stands for a signature, which a class has once; QObject has some.
ASSUME ProxiesAssumption ==
  /\ NoObj \notin SocketObj
  /\ QObjectMethods \in Seq(STRING) /\ QObjectMethods # <<>> /\ Fault \in STRING
  /\ OwnMethods \in Seq([name : STRING, kind : {"void", "value", "signal"}, arity : Nat,
                         known : BOOLEAN])
  /\ \A i, j \in DOMAIN OwnMethods : OwnMethods[i].name = OwnMethods[j].name => i = j

dbusVars == <<up, session, accept, clientList, shared, private, paths, created, alive, requests,
              replies, proxy, entry, instance>>
fileVars == <<file, disk, dir, conn, enabled, notifying, watched, dirWatch, monitored, events,
              known, reported, gap, fileChanges>>
managerVars == <<managerRows, fresh, writable, loadable, installed, semaphore, pc, local, error,
                 result, operations>>
metaVars == <<calls, broken, rootRead, xmlVersion, serviceName, serviceLocation, serviceType,
              serviceInterfaces, latestIndex, serviceTags, interface, interfaceTags,
              latestError, outcome, elements>>
loaderVars == <<background, interfaceName, serviceDescriptor, asynchronous,
                loaderComponentComplete, status, serviceReply, serviceObject, serviceManager,
                orphans, abandoned, leaked, stack, lost, crashed, loaderChanges>>
listsVars == <<element, registered, criterion, listsComponentComplete, monitor, manager,
               connections, signals, queued, list, owed, listsChanges>>
busVars == <<property, call, ran, busSignals, heard>>
proxiesVars == <<direct, object, serving, endPoint, intercept, dangling, toService, toClient,
                 socketProxy, waiting, timer, listening, told, misled, running, readNothing>>

\* Nothing is known of the components that are not looked at.
DBusIdle ==
  /\ up = 0 /\ session = 0 /\ accept = 0 /\ clientList = 0 /\ shared = 0
  /\ private = 0 /\ paths = 0 /\ created = 0 /\ alive = 0 /\ requests = 0
  /\ replies = 0 /\ proxy = 0 /\ entry = 0 /\ instance = 0
FileIdle ==
  /\ file = 0 /\ disk = 0 /\ dir = 0 /\ conn = 0 /\ enabled = 0 /\ watched = 0
  /\ notifying = 0 /\ dirWatch = 0 /\ monitored = 0 /\ events = 0 /\ known = 0
  /\ reported = 0 /\ gap = 0 /\ fileChanges = 0
ManagerIdle ==
  /\ managerRows = 0 /\ fresh = 0 /\ writable = 0 /\ loadable = 0 /\ installed = 0
  /\ semaphore = 0 /\ pc = 0 /\ local = 0 /\ error = 0 /\ result = 0
  /\ operations = 0
MetaIdle ==
  /\ calls = 0 /\ broken = 0 /\ rootRead = 0 /\ xmlVersion = 0 /\ serviceName = 0
  /\ serviceLocation = 0 /\ serviceType = 0 /\ serviceInterfaces = 0
  /\ latestIndex = 0 /\ serviceTags = 0 /\ interface = 0 /\ interfaceTags = 0
  /\ latestError = 0 /\ outcome = 0 /\ elements = 0
LoaderIdle ==
  /\ background = 0 /\ interfaceName = 0 /\ serviceDescriptor = 0 /\ asynchronous = 0
  /\ loaderComponentComplete = 0 /\ status = 0 /\ serviceReply = 0
  /\ serviceObject = 0 /\ serviceManager = 0 /\ orphans = 0 /\ abandoned = 0
  /\ leaked = 0 /\ stack = 0 /\ lost = 0 /\ crashed = 0 /\ loaderChanges = 0
ListsIdle ==
  /\ element = 0 /\ registered = 0 /\ criterion = 0 /\ listsComponentComplete = 0
  /\ monitor = 0 /\ manager = 0 /\ connections = 0 /\ signals = 0 /\ queued = 0
  /\ list = 0 /\ owed = 0 /\ listsChanges = 0
BusIdle ==
  /\ property = 0 /\ call = 0 /\ ran = 0 /\ busSignals = 0 /\ heard = 0
ProxiesIdle ==
  /\ direct = 0 /\ object = 0 /\ serving = 0 /\ endPoint = 0 /\ intercept = 0
  /\ dangling = 0 /\ toService = 0 /\ toClient = 0 /\ socketProxy = 0
  /\ waiting = 0 /\ timer = 0 /\ listening = 0 /\ told = 0 /\ misled = 0
  /\ running = 0 /\ readNothing = 0

OthersIdle(component) ==
  /\ component # "database" => Init
  /\ component # "dbus" => DBusIdle
  /\ component # "file" => FileIdle
  /\ component # "manager" => ManagerIdle
  /\ component # "metaData" => MetaIdle
  /\ component # "loader" => LoaderIdle
  /\ component # "lists" => ListsIdle
  /\ component # "busObject" => BusIdle
  /\ component # "proxies" => ProxiesIdle

FrameworkInit ==
  /\ \/ active = "database" /\ Init
     \/ active = "dbus" /\ DBus!Init
     \/ active = "file" /\ File!Init
     \/ active = "manager" /\ Manager!Init
     \/ active = "metaData" /\ Meta!Init
     \/ active = "loader" /\ Loader!Init
     \/ active = "lists" /\ Lists!Init
     \/ active = "busObject" /\ Bus!Init
     \/ active = "proxies" /\ Proxies!Init
  /\ OthersIdle(active)

DatabaseStep ==
  /\ active = "database" /\ Next
  /\ UNCHANGED <<active, dbusVars, fileVars, managerVars, metaVars,
                  loaderVars, listsVars, busVars, proxiesVars>>
DBusStep ==
  /\ active = "dbus" /\ DBus!Next
  /\ UNCHANGED <<active, databaseVars, fileVars, managerVars, metaVars,
                  loaderVars, listsVars, busVars, proxiesVars>>
FileStep ==
  /\ active = "file" /\ File!Next
  /\ UNCHANGED <<active, databaseVars, dbusVars, managerVars, metaVars,
                  loaderVars, listsVars, busVars, proxiesVars>>
ManagerStep ==
  /\ active = "manager" /\ Manager!Next
  /\ UNCHANGED <<active, databaseVars, dbusVars, fileVars, metaVars,
                  loaderVars, listsVars, busVars, proxiesVars>>
MetaStep ==
  /\ active = "metaData" /\ Meta!Next
  /\ UNCHANGED <<active, databaseVars, dbusVars, fileVars, managerVars,
                  loaderVars, listsVars, busVars, proxiesVars>>
LoaderStep ==
  /\ active = "loader" /\ Loader!Next
  /\ UNCHANGED <<active, databaseVars, dbusVars, fileVars, managerVars,
                  metaVars, listsVars, busVars, proxiesVars>>
ListsStep ==
  /\ active = "lists" /\ Lists!Next
  /\ UNCHANGED <<active, databaseVars, dbusVars, fileVars, managerVars,
                  metaVars, loaderVars, busVars, proxiesVars>>
BusStep ==
  /\ active = "busObject" /\ Bus!Next
  /\ UNCHANGED <<active, databaseVars, dbusVars, fileVars, managerVars,
                  metaVars, loaderVars, listsVars, proxiesVars>>
ProxiesStep ==
  /\ active = "proxies" /\ Proxies!Next
  /\ UNCHANGED <<active, databaseVars, dbusVars, fileVars, managerVars,
                  metaVars, loaderVars, listsVars, busVars>>

FrameworkNext ==
  \/ DatabaseStep \/ DBusStep \/ FileStep \/ ManagerStep \/ MetaStep \/ LoaderStep
  \/ ListsStep \/ BusStep \/ ProxiesStep

frameworkVars == <<active, databaseVars, dbusVars, fileVars, managerVars, metaVars, loaderVars,
                   listsVars, busVars, proxiesVars>>

Fairness ==
  /\ WF_dbusVars(active = "dbus" /\ \E p \in BusProxy :
                    DBus!ObjectRefused(p) \/ DBus!ObjectRejected(p) \/ DBus!ObjectGranted(p))
  /\ WF_dbusVars(active = "dbus" /\ \E r \in replies : DBus!ReadReply(r))
  /\ WF_loaderVars(active = "loader" /\ Loader!Return)
  /\ WF_loaderVars(active = "loader" /\ serviceManager /\
                   (Loader!FinishLoading \/ Loader!FinishOrphan))
FrameworkSpec == FrameworkInit /\ [][FrameworkNext]_frameworkVars /\ Fairness
-----------------------------------------------------------------------------
TypesOK ==
  /\ TypeOK
  /\ active = "dbus" => DBus!TypeOK
  /\ active = "file" => File!TypeOK
  /\ active = "manager" => Manager!TypeOK
  /\ active = "metaData" => Meta!TypeOK
  /\ active = "loader" => Loader!TypeOK
  /\ active = "lists" => Lists!TypeOK
  /\ active = "busObject" => Bus!TypeOK
  /\ active = "proxies" => Proxies!TypeOK

\* A proxy is served as what it stands for.  The object a proxy of the D-Bus
\* backend calls stays with the service, counted, until the proxy is destroyed, though
\* proxies of an earlier process release what they had, by the name of the service,
\* from the present one (ipc/objectendpoint_dbus.cpp 160-192 and 353-505); the
\* method called is the one that runs and the signal emitted the one that comes,
\* though the bus has fewer types (ipc/qservicemetaobject_dbus.cpp 341-501) and a
\* socket's proxy numbers its methods otherwise (ipc/proxyobject.cpp 66-208); what
\* intercepts signals lets go of living objects only (ipc/qsignalintercepter.cpp
\* 146-214), and who listens for faults hears of one (ipc/proxyobject.cpp 315-366).
BoundServed ==
  /\ active = "dbus" => DBus!BoundServed /\ DBus!CountsCoverProxies
  /\ active = "busObject" => Bus!CallsReach /\ Bus!SignalsReach
  /\ active = "proxies" => Proxies!IndexesAgree /\ Proxies!DisconnectsLiving /\ Proxies!FaultsTold

\* What is shown is what is stored, whatever changed meanwhile: the services the
\* watcher of the database knows (databasemanager.cpp 113-198), and the lists of
\* the QML elements (qdeclarativeservice.cpp 441-508, qdeclarativeserviceold.cpp
\* 438-575), unless the news is still under way; and the element that shows
\* Loading has a request that a manager serves, whatever the handlers of its signals
\* set, but where a handler that runs as a load ends begins another, or the process
\* has background operations off (qdeclarativeservice.cpp 177-264).
ShownIsCurrent ==
  /\ active = "file" => File!KnownIsCurrent
  /\ active = "lists" => Lists!RegistrationsReachList
  /\ active = "loader" => Loader!LoadingHasRequest /\ Loader!RequestShows

\* What is registered is fit to be: its plugin was told so, whatever two processes
\* do in between (qservicemanager.cpp 734-833), and its interfaces come once each
\* with their latest version known (servicemetadata.cpp 590-658).
RegisteredIsFit ==
  /\ active = "manager" => Manager!RegisteredIsInstalled
  /\ active = "metaData" => Meta!ResultConsistent

\* Who waits is answered: a request the D-Bus service has got, unless it dies or
\* its session shuts (objectendpoint_dbus.cpp 313-381), and the QML element, unless
\* it crashed or its request is lost as above (qdeclarativeservice.cpp 177-264).
Answered ==
  /\ \A p \in BusProxy :
       (active = "dbus" /\ DBus!Pending(p)) ~>
         (active = "dbus" => proxy[p] # "waiting" \/ ~up \/ ~accept[entry[p]])
  /\ (active = "loader" /\ status = "Loading") ~>
       (active = "loader" => status # "Loading" \/ crashed \/ lost)
=============================================================================
