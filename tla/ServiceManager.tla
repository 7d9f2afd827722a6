---------------------------- MODULE ServiceManager ----------------------------
(***************************************************************************)
(* qservicemanager.cpp: the operations an application calls, over the      *)
(* database manager and the plugins.  Registering a plugin is more than a  *)
(* row: the plugin is loaded and told (installService), and told again     *)
(* when it is removed (uninstallService).  The row and the plugin are      *)
(* brought together by the steps of one process, and another process may   *)
(* run its own steps between them.                                         *)
(*                                                                         *)
(* A package is what one XML file registers: a name, which several         *)
(* packages may share, the location of its plugin, or that of an           *)
(* out-of-process service.  A row remembers whether its plugin has been    *)
(* initialised: the rows of a generated database have not.                 *)
(***************************************************************************)
EXTENDS Naturals, FiniteSets

CONSTANTS Manager,       \* service managers, each in a process of its own
          ScopeOf,       \* the scope each was made for
          Name, Location,
          Package,       \* [name, location, ipc]
          Generated,     \* rows the databases start with, not initialised
          MaxOperations

VARIABLES
  rows,       \* the packages registered in the database of each scope
  fresh,      \* the rows that carry SERVICE_INITIALIZED = "NO"
  writable,   \* the databases this user may write
  loadable,   \* the plugins that load
  installed,  \* the plugins that were told installService and not the reverse
  semaphore,  \* the names whose QSystemSemaphore is taken
  pc, local,  \* where each manager is in an operation, and what it holds
  error,      \* QServiceManagerPrivate::error
  result,     \* what the last operation returned
  operations

stores == <<rows, fresh>>
vars == <<stores, writable, loadable, installed, semaphore, pc, local, error,
          result, operations>>

Scope == {"user", "system"}
Errors == {"NoError", "InvalidServiceXml", "StorageError", "ComponentNotFound",
           "PluginLoadingFailed", "InvalidServiceLocation", "InvalidDescriptor"}
Labels == {"idle", "register", "install", "undo", "uninstall", "unregister",
           "load", "initialise", "create"}
NoPackage == [name |-> "", location |-> "", ipc |-> FALSE]
Idle == [package |-> NoPackage, paths |-> {}, fresh |-> FALSE]

TypeOK ==
  /\ rows \in [Scope -> SUBSET Package]
  /\ \A s \in Scope : fresh[s] \subseteq rows[s]
  /\ writable \subseteq Scope
  /\ loadable \subseteq Location /\ installed \subseteq Location
  /\ semaphore \subseteq Name
  /\ pc \in [Manager -> Labels]
  /\ local \in [Manager -> [package : [name : Name \cup {""}, ipc : BOOLEAN,
                                      location : Location \cup {""}],
                            paths : SUBSET Location, fresh : BOOLEAN]]
  /\ error \in [Manager -> Errors]
  /\ result \in [Manager -> BOOLEAN]
  /\ operations \in 0..MaxOperations

\* The constructor leaves error uninitialised.
Init ==
  /\ rows = [s \in Scope |-> Generated[s]]
  /\ fresh = [s \in Scope |-> Generated[s]]
  /\ writable \in {Scope, {"user"}}
  /\ loadable = Location
  /\ installed = {}
  /\ semaphore = {}
  /\ pc = [m \in Manager |-> "idle"]
  /\ local = [m \in Manager |-> Idle]
  /\ error \in [Manager -> {"NoError", "StorageError"}]
  /\ result = [m \in Manager |-> TRUE]
  /\ operations = 0

Goto(m, label, l) == pc' = [pc EXCEPT ![m] = label] /\ local' = [local EXCEPT ![m] = l]
SetError(m, e) == error' = [error EXCEPT ![m] = e]

\* The operation starts (setError(NoError)) ...
Begin(m, label, l) ==
  /\ pc[m] = "idle" /\ operations < MaxOperations
  /\ operations' = operations + 1
  /\ Goto(m, label, l)
  /\ SetError(m, "NoError")
  /\ UNCHANGED <<stores, writable, loadable, installed, semaphore, result>>

\* ... and returns.
Return(m, r, e) ==
  Goto(m, "idle", Idle) /\ result' = [result EXCEPT ![m] = r] /\ SetError(m, e)

\* What a scope sees: user scope means both databases.
Visible(m) == IF ScopeOf[m] = "user" THEN rows["user"] \cup rows["system"]
              ELSE rows["system"]
-----------------------------------------------------------------------------
(***************************************************************************)
(* addService                                                              *)
(***************************************************************************)
AddService(m, p) == Begin(m, "register", [Idle EXCEPT !.package = p])

AddInvalidXml(m) ==
  /\ pc[m] = "idle" /\ operations < MaxOperations
  /\ operations' = operations + 1
  /\ Return(m, FALSE, "InvalidServiceXml")
  /\ UNCHANGED <<stores, writable, loadable, installed, semaphore>>

\* registerService: refused when the location is taken, when an implementation
\* is there already, and by a database that cannot be written.
MayRegister(m, p) ==
  /\ ScopeOf[m] \in writable
  /\ \A q \in rows[ScopeOf[m]] : q.location # p.location

Register(m) ==
  LET p == local[m].package  s == ScopeOf[m] IN
  /\ pc[m] = "register" /\ MayRegister(m, p)
  /\ rows' = [rows EXCEPT ![s] = @ \cup {p}]
  /\ IF p.ipc THEN Return(m, TRUE, "NoError")
     ELSE Goto(m, "install", local[m]) /\ UNCHANGED <<error, result>>
  /\ UNCHANGED <<fresh, writable, loadable, installed, semaphore, operations>>

\* The reason is kept for a plugin only.
RegisterFails(m) ==
  /\ pc[m] = "register"
  /\ Return(m, FALSE, IF local[m].package.ipc THEN "NoError" ELSE "StorageError")
  /\ UNCHANGED <<stores, writable, loadable, installed, semaphore, operations>>

\* Mutant: a plugin that does not load is registered all the same.
InstallAnyhow(m) == Return(m, TRUE, "NoError") /\ UNCHANGED installed

\* The new plugin is loaded and told; one that does not load is taken out again.
InstallPlugin(m) ==
  IF local[m].package.location \in loadable
  THEN installed' = installed \cup {local[m].package.location} /\ Return(m, TRUE, "NoError")
  ELSE Goto(m, "undo", local[m]) /\ UNCHANGED <<installed, error, result>>

Install(m) ==
  /\ pc[m] = "install"
  /\ InstallPlugin(m)
  /\ UNCHANGED <<stores, writable, loadable, semaphore, operations>>

\* unregisterService takes every row of the name.
Unregistered(s, n) == /\ rows' = [rows EXCEPT ![s] = {q \in @ : q.name # n}]
                      /\ fresh' = [fresh EXCEPT ![s] = {q \in @ : q.name # n}]

UndoRegistration(m) ==
  /\ pc[m] = "undo"
  /\ Unregistered(ScopeOf[m], local[m].package.name)
  /\ Return(m, FALSE, "PluginLoadingFailed")
  /\ UNCHANGED <<writable, loadable, installed, semaphore, operations>>
-----------------------------------------------------------------------------
(***************************************************************************)
(* removeService                                                           *)
(***************************************************************************)
PathsOf(m, n) == {q.location : q \in {q \in Visible(m) : q.name = n /\ ~q.ipc}}

RemoveService(m, n) ==
  Begin(m, "uninstall", [Idle EXCEPT !.package.name = n, !.paths = PathsOf(m, n)])

\* uninstallService of every plugin found that loads ...
Uninstall(m) ==
  /\ pc[m] = "uninstall"
  /\ installed' = installed \ (local[m].paths \cap loadable)
  /\ Goto(m, "unregister", local[m])
  /\ UNCHANGED <<stores, writable, loadable, semaphore, error, result, operations>>

\* ... then the rows, in the manager's own database.
Unregister(m) ==
  LET s == ScopeOf[m]  n == local[m].package.name IN
  /\ pc[m] = "unregister"
  /\ IF s \in writable /\ \E q \in rows[s] : q.name = n
     THEN Unregistered(s, n) /\ Return(m, TRUE, "NoError")
     ELSE Return(m, FALSE, IF s \in writable THEN "ComponentNotFound"
                           ELSE "StorageError") /\ UNCHANGED stores
  /\ UNCHANGED <<writable, loadable, installed, semaphore, operations>>
-----------------------------------------------------------------------------
(***************************************************************************)
(* loadInterface of a descriptor that a query gave                         *)
(***************************************************************************)
LoadInterface(m, p) ==
  /\ p \in Visible(m)
  /\ Begin(m, "load", [Idle EXCEPT !.package = p,
                                   !.fresh = \E s \in Scope : p \in fresh[s]])

\* An out-of-process service is reached or not (proxyForService); a plugin is
\* loaded, and a descriptor that says "NO" takes the semaphore first.
Load(m) ==
  LET p == local[m].package IN
  /\ pc[m] = "load"
  /\ \/ /\ p.ipc
        /\ \E r \in BOOLEAN : Return(m, r, IF r THEN "NoError" ELSE "InvalidServiceLocation")
        /\ UNCHANGED semaphore
     \/ /\ ~p.ipc /\ p.location \notin loadable
        /\ Return(m, FALSE, "PluginLoadingFailed")
        /\ UNCHANGED semaphore
     \/ /\ ~p.ipc /\ p.location \in loadable /\ ~local[m].fresh
        /\ Goto(m, "create", local[m]) /\ UNCHANGED <<semaphore, error, result>>
     \/ /\ ~p.ipc /\ p.location \in loadable /\ local[m].fresh
        /\ p.name \notin semaphore
        /\ semaphore' = semaphore \cup {p.name}
        /\ Goto(m, "initialise", local[m]) /\ UNCHANGED <<error, result>>
  /\ UNCHANGED <<stores, writable, loadable, installed, operations>>

\* installService, then serviceInitialized in the manager's own database: the
\* mark of a system service stays when a user-scope manager loads it.
Initialise(m) ==
  LET p == local[m].package  s == ScopeOf[m] IN
  /\ pc[m] = "initialise"
  /\ installed' = installed \cup {p.location}
  /\ fresh' = IF s \in writable
              THEN [fresh EXCEPT ![s] = {q \in @ : q.name # p.name}] ELSE fresh
  /\ semaphore' = semaphore \ {p.name}
  /\ Goto(m, "create", local[m])
  /\ UNCHANGED <<rows, writable, loadable, error, result, operations>>

\* createInstance may refuse the descriptor.
Create(m) ==
  /\ pc[m] = "create"
  /\ \E r \in BOOLEAN : Return(m, r, IF r THEN "NoError" ELSE "PluginLoadingFailed")
  /\ UNCHANGED <<stores, writable, loadable, installed, semaphore, operations>>
-----------------------------------------------------------------------------
\* findServices, findInterfaces, interfaceDefault, setInterfaceDefault: only
\* what they leave in error matters here.  findInterfaces forgets a failure
\* that left it some descriptors; an empty name or an invalid descriptor is an
\* error of its own.
Query(m, r, e) ==
  /\ pc[m] = "idle" /\ operations < MaxOperations
  /\ e \in {"NoError", "StorageError", "ComponentNotFound", "InvalidDescriptor"}
  /\ r = (e = "NoError")
  /\ operations' = operations + 1
  /\ Return(m, r, e)
  /\ UNCHANGED <<stores, writable, loadable, installed, semaphore>>

\* A plugin file disappears or is replaced.
PluginChanges(l) ==
  /\ operations < MaxOperations
  /\ operations' = operations + 1
  /\ loadable' = IF l \in loadable THEN loadable \ {l} ELSE loadable \cup {l}
  /\ UNCHANGED <<stores, writable, installed, semaphore, pc, local, error, result>>

Next ==
  \/ \E m \in Manager :
       \/ \E p \in Package : AddService(m, p) \/ LoadInterface(m, p)
       \/ AddInvalidXml(m) \/ Register(m) \/ RegisterFails(m)
       \/ Install(m) \/ UndoRegistration(m)
       \/ \E n \in Name : RemoveService(m, n)
       \/ Uninstall(m) \/ Unregister(m)
       \/ Load(m) \/ Initialise(m) \/ Create(m)
       \/ \E r \in BOOLEAN, e \in Errors : Query(m, r, e)
  \/ \E l \in Location : PluginChanges(l)

Spec == Init /\ [][Next]_vars
-----------------------------------------------------------------------------
\* Some process is in the middle of telling the plugin of this package.
Handling(m, p) ==
  \/ pc[m] \in {"install", "undo"} /\ local[m].package = p
  \/ pc[m] = "unregister" /\ local[m].package.name = p.name

\* A plugin that is registered has been told so, unless the process that
\* registers or removes it is not done: no interleaving of two processes
\* leaves a service that applications find and that was never set up.
RegisteredIsInstalled ==
  \A s \in Scope : \A p \in rows[s] \ fresh[s] :
    \/ p.ipc
    \/ p.location \in installed
    \/ \E m \in Manager : Handling(m, p)

\* A registration that fails takes no other service away ("If the service
\* plugin is not accessible [...] the registration fails and this method
\* returns false").
\* (The code does not keep it; no run checks it.)
FailedAddKeepsOthers ==
  [][\A m \in Manager : UndoRegistration(m) =>
       rows[ScopeOf[m]] \ {local[m].package} \subseteq rows'[ScopeOf[m]]]_vars

\* Whoever was returned a failure can ask for its reason ("Returns the type of
\* error that last occurred").
\* (The code does not keep it; no run checks it.)
FailureHasReason ==
  \A m \in Manager : pc[m] = "idle" /\ ~result[m] => error[m] # "NoError"
=============================================================================
