# Qt Systems in TLA+

Specifications of Qt Systems, written from the code: the Service Framework
(`src/src/serviceframework`) with its IPC, Publish/Subscribe
(`src/src/publishsubscribe`), the backends of QtSystemInfo (`src/src/systeminfo`)
that keep state, and the QML elements over them (`src/src/imports`). TLC checks each
module on small instances; TLAPS proves the safety properties for every instance, of all
parts but the registry layer.

Run `tlc -config X.cfg M` for a run of the table below and `tlapm M.tla` for the
proof modules.

## The system and its parts

| Part | State it keeps | Operations | Hard because | Modules |
| --- | --- | --- | --- | --- |
| **Service instances**: `InstanceManager`, service-side `ObjectEndPoint`, `UnixEndPoint`, `QRemoteServiceRegister` | a descriptor per entry (shared object, reference count, private objects), an end point per connection, quit flag | register, accept, request an object, lose a connection, quit | every client may leave at any point; deletions are posted, not done; the last release ends the process | `ServiceInstances` |
| **Blocking calls**: client-side `ObjectEndPoint` over `UnixEndPoint` | open requests, the id waited for, `functionReturned`, received packages, the half-read package | call a method, read a property, receive answers and signals, time out | a wait runs slots, which wait again: re-entrancy at every level | `BlockingCalls` |
| **Starting services**: `doStart`, `createServiceEndPoint`, `isServiceRunning` | the socket and the pid file | connect, fork, poll, publish | two clients start one service at once; processes die in between | `ServiceStart` |
| **Service database**: `ServiceDatabase` | tables of services, interfaces and defaults | register, unregister, choose a default, look up | defaults must follow registrations | `ServiceDatabase` |
| **Database manager**: `DatabaseManager` | two databases shared by all processes, open connections, the last error | the same at user and system scope; cleanup of external defaults | one operation is several transactions | `DatabaseManager` |
| **Database file and watcher**: `ServiceDatabase::open`, `DatabaseFileWatcher` | the tables of the file, the watched paths, the known services | open, make tables, register, delete the file; notify of services added and removed | files are created, deleted and replaced while others have them open | `DatabaseFile` |
| **Service manager**: `QServiceManager` | the error, the rows with their *initialised* mark | add, remove, load, query | a row and the installation of its plugin are brought together in steps; other processes come between | `ServiceManager` |
| **Service metadata**: `ServiceMetaData` | the service and interfaces read so far | read a document | three nested readers share one stream of tokens | `ServiceMetaData` |
| **Background operations**: `QServiceOperations`, `QServiceReply` | engage count, a thread, its queue, the replies | engage, request, handle, disengage, terminate | the thread ends and starts again with requests in its queues | `ServiceOperations` |
| **D-Bus backend**: `DBusSession`, `DBusEndPoint`, `ObjectEndPoint` of D-Bus | sessions, client records, objects on the bus | accept, request, release | several proxies of one client; answers are broadcast | `DBusService` |
| **Types on the bus**: `QServiceMetaObjectDBus` | the calls under way | call, read and write properties, emit signals | the bus has fewer types than C++: overloads meet | `ServiceMetaObjectDBus` |
| **Proxies and signals**: `QServiceProxy`, `QSignalIntercepter`, `ObjectEndPoint` | method numbers on both sides, interceptions, what is on the socket | call, emit, listen for faults, delete | both sides number methods on their own; objects are deleted under both | `ServiceProxies` |
| **System lock**: `QSystemReadWriteLock` (Windows) | three counts and two semaphores | lock for reading or writing, unlock | between a wake-up and a second look others take the lock | `SystemReadWriteLock`, `ReadWriteLock` |
| **Value space**: subscriber, publisher, `GConfLayer` | data that subscribers share, handles with reference counts, monitored handles | subscribe, move, connect, publish, notify | slots change what is being walked through | `ValueSpace` |
| **Registry layer** (Windows) | handles, open registry keys, waits, the handles that wait by proxy | the same, against a registry others write | a key that is watched is deleted and made again | `RegistryLayer` |
| **Network information on Linux**: `QNetworkInfo`, `QOfonoWrapper` | what is kept while signals are connected; modems | connect, disconnect, read, poll, udev and oFono events | a value is read *or* kept, by what is connected | `NetworkInfo`, `OfonoWrapper` |
| **Battery information**: over sysfs, over UPower, on Windows, in the simulator | as above, by battery and index | the same | four implementations of one promise; daemons restart; numbers shift | `BatteryInfo`, `UDevWrapper`, `UPowerBatteryInfo`, `WindowsBatteryInfo`, `SimulatedBattery` |
| **Input devices**: `QInputInfoManager` over udev, the QML model | one map of devices, a filtered copy per manager, rows of the model | list, follow, filter | listing and udev events overlap; node names come back | `InputInfo`, `InputDeviceModel` |
| **Device information on Linux** | the thermal state kept by a timer, cached names | connect, read, poll | sensors come and go between read and poll | `DeviceInfo` |
| **Network information on Windows** | WLAN handles and callbacks, timers, what was last told | the same | handles are opened anew with callbacks on the old ones | `WindowsNetworkInfo` |
| **QML elements**: `ServiceLoader`, `ServiceFilter`, old `ServiceList`, `NetworkInfo` | a reply, an object, a list, connections | set properties, load, query, monitor | properties may be set in any order, from slots as well | `ServiceLoader`, `ServiceLists`, `DeclarativeNetworkInfo` |
| Local-socket backend, slot invoker, other system information, other QML elements, tools | | | see *Not modelled* | no |

How they interact. `QServiceManager` asks the *database manager* for a descriptor,
which looks in the *service databases*; registering one begins with the *service
metadata* of an XML document and ends with the plugin that is told. For an interface
in another process it *starts* the service or connects to it, and requests an object
from the *service instances* there (or, in the other build, from the *D-Bus backend*);
the proxy it gets numbers methods (*proxies and signals*) and makes *blocking calls*.
With `loadInterfaceRequest` all of this happens in the thread of the *background
operations*. The *watcher* tells managers, and through them the *QML elements*, of
changes other processes made. A subscriber of the *value space* holds handles of a layer:
GConf on Linux, the *registry layer* on Windows, which shares its memory under the
*system lock*. The classes of QtSystemInfo share no state.

## Modules

### Core of the service framework

**`ServiceInstances`**: the service process, with clients as its environment. One
event loop runs everything, so a handler (`ObjectRequest`, `HangUp`, ...) is one
action; `deleteLater` makes an object or end point *doomed* or *closing* and
`DeleteObject`, `DeleteEndPoint` delete it, with anything between. `ObjectRequest`
has a disjunct for each way out of `ObjectEndPoint::objectRequest`.
`RemoveObjectInstance` is `removeObjectInstance` with `allInstancesClosed()` and
`quit()` behind it. A client is not answered when it is rejected; it sees the end
of the connection. `ExitProcess` ends the process, and the next connection finds
a new one.

**`BlockingCalls`**: one client thread and one connection. The variable `stack`
holds the functions that are in progress (`waitForResponse`, `readIncoming`,
`newPackageReady`, a slot); only the top one takes steps, each of which is one
turn of its loop. A package is two pieces on the wire, so a read can end within
one, and `TakePiece` notices when it reads a piece that does not follow the last.
An answer arrives when the service gives it; a wait may time out at any moment.

**`ServiceStart`**: clients in `doStart`, the processes they fork in
`createServiceEndPoint`, and between them the socket, the temporary file and the pid
file, each of which is the process it belongs to. Every system call on a file is an
action. `Notify` is what inotify tells of the directory; `Wake` may also come from the
timeout or another file, so the wait can end at any moment. Writing the pid file is one
action, as nobody can tell it empty from missing. Child processes are forked and
executed in one step, before which they touch nothing.

**`ServiceDatabase`**: a transaction is an action; the sets `rows` and the
function `defaults` stand for the tables. `ORDER BY VerMaj DESC, VerMin DESC`
does not order implementations of one version, so a default is *some* row of the
latest. Transactions that fail change nothing and are no steps. `Next` is that of
the system's database, out of which nothing refers.

**`DatabaseManager`**: two instances of `ServiceDatabase` and any number of
processes. An operation of a process is a run through the labels of `pc`, one per
transaction: `openDb` and its cleanup (`remove`, `readUser`, `readSystem`,
`choose`, `setExternal`, for each default), then what was asked for (`run`).
`interfaceDefault` goes through the same reset for one default. What an operation
reads early and uses late is in `local`. `found` is the return of
`interfaceDefault` with a descriptor, before `QServiceManager` looks at the last
error. `setInterfaceDefault(service, interface)` is `getInterfaces` followed by
`setInterfaceDefault(descriptor)`, as it is in the code. `Exit` ends a process
anywhere.

**`ServiceOperations`**: the managers of a process, the background thread, and the
events posted to the replies. `engage` and `disengage` are two or three actions, one
for each access to the count or the thread. With `SameThread` the managers live in
one thread, as in the examples and tests, and `disengage` blocks that.

**`ReadWriteLock`**, **`SystemReadWriteLock`**: what a readers-writers lock
promises, and the one of the code, where the stretch between `m_counts.lock()` and
`m_counts.unlock()` is an action and a waiting thread is *acquiring* or *woken*.
`ImplementsLock` is the refinement: readers and writers are the threads that hold
the lock.

### Around the core (`ServiceFramework`)

**`DatabaseFile`**: opening looks for the tables, drops what there is of them and
makes them, one action for each transaction, in several processes; the directory and the
file are two actions as well. A deleted file lives on for those that have it open: `disk`
keeps every file that ever had the name, `file` is the one that has it now. The watcher
looks for the file, watches a directory, lists the services and adds the path, each a step
of its own, named by `enabled`; `gap` says that the file came, changed or went between a
look and its watch. `events` are the notifications not yet delivered.

**`ServiceManager`**: `addService` is the row, the plugin's `installService`, and
its removal if that fails; `loadInterface` looks at the mark and installs a plugin of a
generated database first. Each call into the database or a plugin is an action of its
own, because another process may come between.

**`ServiceMetaData`**: `calls` is the stack of the three reading functions. The
document is not given: each token is chosen among those `QXmlStreamReader` may hand
out there, and `broken` says it failed.

**`DBusService`**: only the request for an object travels through end points;
afterwards proxies call the object on the bus. `requests` and `replies` are what is on
the bus. A client's proxies share a record in the session (`clientList`). A request
is refused by the factory (`ObjectRefused`), or by the client's record after the object was
made, which takes it away again and may close the service (`ObjectRejected`). `DestroyProxy`
calls whoever has the bus name by then: a proxy that lost its process may take one
off the record that its client has in the next, but not off a shared or private object it
does not name.

**`ServiceMetaObjectDBus`**: which overload a call or signal reaches after its
types were replaced by those the bus has. A type is plain, custom, or `QVariant`.

**`ServiceProxies`**: an object's signals are intercepted, written to a socket and
activated at the proxies, whose method numbers are one more than the service's after
the signal `QServiceProxyBase` puts before them.

**`ServiceLoader`**, **`ServiceLists`**: an action for each property that is set and
each signal that comes back; `ServiceLists` has both elements that list services, which
differ in when they have a manager. A signal of the loader runs the handlers of the document
at once, and these may set properties again: `stack` has what each interrupted function still
does, `Return` goes on with the innermost, and `lost` says that the end of a load took the
manager of one that a handler had begun, or that no request was made because there are no
background operations.

**`ServiceFramework`** puts these and the service database side by side: it declares their
constants with the assumptions on them, says what `Init` and `Next` are, and states the
properties of the run and of the theorems. `MCServiceFramework` gives the constants values.

### Publish/Subscribe (`MCPublishSubscribe`)

`MCPublishSubscribe` extends `ValueSpace`, whose properties it checks under their own names,
and has the registry layer through `INSTANCE`; either one or the other takes steps.

**`ValueSpace`**: a path is a sequence of names and a handle the path it is for,
because the layer keeps one handle a path and counts its holders. GConf's notifications
and the layer's own thread, which walks through the monitored handles without the
mutex, interleave with the application. Shared data count their connections by the
address of the subscriber, and nobody takes the count back when one dies; `haunted` are the
addresses where that happened, and a subscriber that is made there is taken for the dead one
(`Miscounted`).

**`RegistryLayer`**: its operations hold one recursive mutex, so each is a step,
written as a function of the layer's state, a record. Other processes write and delete
keys between them.

### QtSystemInfo (`SystemInfo`)

**`NetworkInfo`** extends **`OfonoWrapper`**; **`BatteryInfo`** extends
**`UDevWrapper`**. oFono sends a signal once
the bus has the match, which is asked for after the list was read: `AddMatch` is a step of its
own, and `missed` says that a modem came or went before it. The classes have an action
for `connectNotify` and `disconnectNotify` of each signal, the getters, udev
events and the timer, in builds with and without udev or oFono. `info` or `battery` is
what is kept; `told` is what an application that read and listened believes.
**`UPowerBatteryInfo`** adds the D-Bus messages under way: a blocking call reads past
them. **`WindowsNetworkInfo`** and **`WindowsBatteryInfo`** have the WLAN service and
the batteries as environment; a number of a Windows battery is kept before or after it
is compared, as the code orders it. **`SimulatedBattery`** has the shared backend and
the nested event loop in which the first `QBatteryInfo` waits. **`InputInfo`** has the
kernel's two nodes per device; **`InputDeviceModel`** edits rows into the manager's
map. **`DeviceInfo`**, **`DeclarativeNetworkInfo`**: getters and timers, and the
signals the QML element connects.

**`SystemInfo`** puts these side by side: it declares their constants with the assumptions on
them, and states the properties of the run and of the theorems. `MCSystemInfo` gives the
constants values.

`ServiceFramework`, `MCPublishSubscribe` and `SystemInfo` have components that share no
state in one run: the variable `active` says which one a behaviour is about, the variables
of the others stay 0. A component's own `Init`, `Next` and properties are used through `INSTANCE`, so nothing
about a component depends on the others.

Definitions under a comment that begins with *Mutant* are forms a plausible mistake would
give the definition that follows. They are used by nothing else.

## Runs

| Run | Module, configuration | States | Shows |
| --- | --- | --- | --- |
| instances | `MCServiceInstances` | 26,305 | Counts are exact, no client is served by a dying object or shares a private one, the process quits when idle and only then; requests are settled, and what clients leave is reclaimed. |
| calls | `BlockingCalls` | 51,659 | Nested calls return, `functionReturned` is never left set, packages behind an answer are dispatched, package boundaries hold, losing the service wakes every caller. |
| calls_timeout | `BlockingCallsTimeout.cfg` | violation | See *Findings*, 1. |
| start | `MCServiceStart` | 1,111,356 | Setups that interleave converge on a socket somebody listens on; one alone succeeds after any crash and wakes all who wait for it. |
| start_timeout | `ServiceStartTimeout.cfg` | violation | Findings, 3. |
| manager | `MCDatabaseManager` | 842,106 | Every implemented interface of the system's database has a default however two processes interleave; a user's interface has one unless a reset was lost. |
| old_defaults | `DatabaseManagerOldDefaults.cfg` | violation | Findings, 2. |
| rwlock | `SystemReadWriteLock` | 58,562 | Exclusion (as a refinement), no lost wake-up; writers wait for writers only, readers for writers only. |
| operations | `ServiceOperations` | 14,905 | Requests are handled once, replies start, get their result and finish in order, and requests complete unless a load was terminated. |
| framework | `MCServiceFramework` | 682,872 | See below: the nine components around the core. |
| publishsubscribe | `MCPublishSubscribe` | 338,419 | Handles are counted, slots are wired to what is watched, changes are under way until they are reported. |
| systeminfo | `MCSystemInfo` | 277,273 | What is connected is watched, reads and reports agree, lists of devices follow the devices. |

What the properties of the last three runs say of each component (the definitions are in
the component's module):

| Property | Of | Says |
| --- | --- | --- |
| `ImplementationsUnique`, `DefaultsComplete` | service database | No implementation, ID or location is registered twice; every implemented interface has a default among its implementations. |
| `BoundServed` | D-Bus backend | The object a proxy calls stays with the service until the proxy is destroyed, whatever proxies of an earlier process release, and a shared one is counted for each of its proxies. |
| | types on the bus | The method called is the one that runs and a signal emitted is one that comes, where overloads can be told apart. |
| | proxies | Method numbers agree, only living objects are disconnected, who listens hears of a fault. |
| `ShownIsCurrent` | database file | What the watcher knows is what the file holds, unless a notification is on its way or the file came, changed or went between a look and the watch that follows it. |
| | QML lists, loader | A list shows what is registered unless news are under way; an element that shows *Loading* has a request some manager serves, unless it was lost. |
| `RegisteredIsFit` | service manager | A plugin that is registered was told so, whatever two processes do, unless one is still handling it or its row came with the device. |
| | metadata | Interfaces of an accepted document come once each, and the latest version of each is known. |
| `Answered` | D-Bus backend, loader | A request the service has got is answered unless the service dies or its session shuts; a load that was not lost ends. |
| `HandlesCounted` | value space | GConf's handles are counted exactly as often as shared data and publishers hold them. |
| `SlotsServed` | value space | A subscriber with slots is wired to the proxy of its own data, whose handle is monitored, unless the data take it for one that died. |
| `ChangesUnderWay` | value space | A change a subscriber has to hear of is queued, being told handle by handle, or posted to its proxy, until it hears of it. |
| `RegistryServed` | registry layer | A handle is counted at least once for each reader and proxy, a key is open exactly while a handle uses it, and a reader is watched. |
| `ChangesReported` | value space | A change under a subscriber's path is reported unless it moves or gives up first. |
| `WatchesServed` | network, battery, device, Windows network | Whatever was connected and disconnected in which order, what a connected signal needs is watched or polled for. |
| `ReadsMatchReports` | all backends with a getter and a signal | Who read a value and follows its signal has the value the next read would be compared with. |
| `DevicesFollowed` | oFono, UPower, input devices, model | The lists kept become those of the devices there are, but for a modem that came or went before the match: a battery UPower has is in the map once nothing is on its way. |
| `BatteryFollowed` | UPower | And what the map says of it is what UPower says, unless a change came before anybody asked to be told or went unanswered. |
| `Followed` | network, device | What is polled for comes to be what it is. |

### Bounds, and why they are enough

- *instances*: two connections and one entry of each kind show every pair of uses
  of one object; a third object lets a new one exist beside a doomed one and a
  private one. Connections are reused, so histories are not bounded. The proofs
  have no bound.
- *calls*: a call within a call within a call needs three calls, of both kinds, and
  one signal to nest them. Ids are used once, so a behaviour ends and the run does
  not look for deadlocks. `ReturnFlagOwned`, `DisconnectWakesAll` and `FramingKept` are proved without
  a bound.
- *start*: two clients fork at once, and each can do so again while the other's process
  is in its setup, for which there are three processes; a backlog of 1 fills. When a
  client went to sleep matters only to `DeadlineKept`, so `Elapsed` is {0} in the first
  run. The proofs have no bound.
- *manager*: two services with two versions of one interface give every choice of a
  successor; two processes give every interleaving of two operations. Ids are
  reused only when nothing names them any more, as unique ids would be. Ids and
  processes are symmetric; no liveness is checked there. Both databases are proved
  without a bound.
- *rwlock*: with four threads two readers and two writers overtake one another.
  Useless wake-ups add up in the semaphores without a bound in the code;
  `MaxValue` = 5 stops an unlock that would exceed it, and is more than the
  threads that can wait. The proofs hold for every `MaxValue`.
- *operations*: two managers and two requests: one request within the other's load, one
  manager's end within the other's beginning.
- *framework*. Database: four metadata files conflict in location, implementation and
  service name; six ids are enough for all that can be registered together. D-Bus: two
  proxies of one client share its record, a third is of another client, and of the two
  entries one is global. File: the process that watches and one that changes, `MaxFiles` = 2 and
  `MaxChanges` = 3, so that a file is made, deleted and made again while it is being opened.
  Manager: two packages of one name, one of a process, one generated, and three
  operations, so that one comes between two of the other. Documents: `MaxElements` = 7 is
  a root, a name, a location and two interfaces with their parts, and two versions and two
  names that run together differently. Loader: `MaxLoaderChanges` = 5 properties set, from outside
  or in handlers, so that one load is begun, another in the handler of its end, and both are left for
  a third; no limit is set to how deep handlers nest. Lists: `MaxListsChanges` = 4. Bus: every pair
  of overloads that meet. Proxies: two clients of one object, two messages a direction.
- *publishsubscribe*. Two subscribers and two shared data: they share, part and die in
  every order; a path, the root above it and one whose name begins alike; one write under
  way. Registry: a reader and a creator, three nested paths, four keys, two changes by others.
- *systeminfo*. One or two devices of each kind, one to three changes (`MaxChanges`) after
  which the environment is quiet, each falling between any two steps of the application.
  Signals are connected and disconnected without a bound. `MaxInterfaces`, `MaxTimers`,
  `MaxInbox`, `MaxSignals`, `MaxSlots` and `MaxRefs` cap what the code lets grow.

### Fairness

- *instances*: the event loop polls every socket and delivers every posted event
  (weak fairness of the service's actions). Clients owe nothing: they need not
  ask or leave.
- *calls*: the thread runs whatever is on top of its stack, slots end, and the 15
  seconds of a wait pass. The service owes nothing, not even an answer.
- *rwlock*: a thread within an operation goes on (its semaphore is granted while it
  has a value), and who holds the lock releases it. Nobody has to lock. Weak fairness
  of each thread is what a scheduler gives; it does not keep one writer from
  overtaking another forever, so the liveness properties except that.
- *operations*: threads run, and a load ends. Events of a reply need strong fairness:
  the thread of the reply is blocked by `disengage` now and then.
- *framework*: the D-Bus service handles the calls it has got and a client reads the
  answers it has got; handlers of the QML element return, and a request is answered while the
  element has a manager. Nobody has to ask, and a request without a manager owes nothing.
- *publishsubscribe*: the layer's thread runs and queued notifications are delivered.
- *systeminfo*: udev events are read and timers that are running fire. Hardware and
  applications owe nothing.
- *start*, *manager*: no liveness is claimed and no fairness assumed.

## Proofs

`ServiceInstancesProofs`, `ServiceClientProofs` (blocking calls, starting and background
operations), `ServiceDatabaseProofs`, `DatabaseManagerProofs`, `ServiceFrameworkProofs`,
`PublishSubscribeProofs` (with the lock), `BatteryProofs` and `SystemInfoProofs`
prove safety properties for every value of the constants, from the
assumptions named in each module. Each has an inductive invariant, a lemma for its preservation with a step for every
action (where actions are many, a lemma for each), and theorems that follow from it.

- *ServiceInstances*. That the reference count equals the number of open connections
  of an entry is not inductive by itself: one must know that every object a descriptor
  owns is live, that no two descriptors own one, that a shared entry has a global object
  exactly while its count is not zero, that an open connection with an entry serves an
  object of that entry under an instance ID no other connection has, and that an
  unregistered entry owns nothing. The counting steps rest on lemmas about the
  cardinality of a set with one element more or less.
- *BlockingCalls*. `functionReturned` may be set only while a call on the stack has its
  answer and will reset it: the invariant relates neighbours of the stack (what a
  function may be called by) and each call to its open request, so that a nested call's
  end finds the outer one as it left it. For `FramingKept` at most one function on the
  stack is within a read, and the bytes it has not taken yet, followed by those on the
  wire, form whole packages - unless a nested read has overtaken it, which
  `FramingKept` excepts and `PackagesFramed` therefore does as well.
- *ServiceStart*. A process that unlinks the socket is about to bind a temporary file, or
  finds one, whose owner is about to rename it: so when no process is in its setup no file
  is missing. For a process alone the invariant says which files are its own after each
  call. Clients that have not slept yet are notified too, which `WaitersWoken` needs.
- *ServiceDatabase*. `DefaultsComplete` is inductive with the types: `NoId` is the ID of
  no row, so a default that is set names a row, and deleting rows loses exactly the
  defaults that named them. `ImplementationsUnique` needs that new IDs are fresh. Lemmas
  say what the rows of a new service look like and that they are finitely many.
- *DatabaseManager*. Every step of every process is a step of the system's
  `ServiceDatabase` or leaves the system's file alone, so the manager implements that
  specification, and what is proved of it holds of the file that all processes share.
  The user's file has no such abstraction, for its defaults also name rows of the other and
  a reset of one is several transactions. Its invariant says what an operation holds at
  each label, that an ID belongs to one interface wherever it is held - in either file or
  by a process in the middle of a reset, so that what a reset found is still of the
  interface it will be set for -, and that an interface left bare has a reset underway that
  will set it, or was lost with the process that had one. A step is *safe* if it moves its own
  process only, adds or keeps names, and leaves an interface bare only to itself; one
  lemma for each action says it is, and one lemma that safe steps preserve the invariant.
- *ServiceFramework*. `FrameworkInv` is the database's invariant and, of the component
  that is looked at, its own; `FrameworkTypes`, `ProxiesServed`, `ShownCurrent` and
  `RegisteredFit` follow. A component's invariant is proved from its `Init` and its
  `Next` alone:
  - *D-Bus backend* (`DBusInv`). The record of a client does not cover its proxies: those an
    earlier process left release it as well. What is proved is that the objects do. An object goes
    only with an instance the record still has, and a proxy that lost its process names one
    that no entry has any more (`FaultsGone`). Nor is the rest inductive by itself: a request that is
    granted may not have been answered yet, and an answer goes to everyone. So the invariant counts
    with the bound proxies those that are told an object and have not heard (`Live`), keeps the
    objects of different entries apart (`Apart`), has two proxies meet in an object only if
    the entry is global (`AloneUnlessShared`), and bounds both the clients and the proxies of a
    shared object by its count (`SharedCounts`, `ProxiesCounted`). The last release of a
    shared object is then that of its only proxy, so no bound one loses it.
  - *types on the bus* (`BusInv`). What is on the bus was made from a method and arguments
    that fit it, and `Recovery` says that a type is known again from what is sent of it,
    but for a list in a variant: so a signature found is the one that was meant.
  - *proxies* (`ProxiesInv`). `IndexesAgree` is about constants: both tables list the
    methods of `QObject`, then the service's, with one signal between at the proxy (`Layout`). For
    the steps the invariant says that what is sent has an index of the receiver's
    table (`Sent`), that an intercepted object lives (`Attached`), and that a proxy is asked for
    once and answered before anything else (`Asked`, `AskedAlive`, `AnsweredFirst`).
  - *database file* (`FileInv`). A watched file is the one that has the name
    (`WatchedIsFile`); what was looked at and is not watched yet is as it was, or there was a gap
    (`Looked`); what the listener knows is what that file holds unless an event says
    otherwise or there was a gap (`ListingCurrent`); and when it watches no file it watches a
    directory in which the next one leaves an event (`Noticed`).
  - *service manager* (`ManagerInv`). To `RegisteredIsInstalled` the invariant adds
    what a manager holds at each label (`LocalFits`) and which rows have the mark that their
    plugin is still to be told: only those the device came with (`FreshGenerated`), and
    all of a scope nobody writes (`UnwrittenFresh`).
  - *metadata* (`MetaInv`). The stack of readers is nested as elements are (`Nested`), and the
    index of latest versions points at interfaces there are.
  - *loader and lists* (`LoaderInv`, `ListsInv`). What is loading has a request, or a function
    on the stack will make one or take *Loading* back (`LoadingState`); no load that is ending is
    left on the stack unless the one begun within it is `lost`. A filter that
    monitors is connected, and no element is owed an update that does not (`Monitored`).

  Of the assumptions three do not say what a constant is, but where the promise ends, in
  `RegisteredIsInstalled`: `OneScope`, because removing a service at user scope uninstalls
  the plugin of one the system has under that name, which stays (`qservicemanager.cpp:797-833`);
  `PluginNamed`, because a plugin that two services have is uninstalled with the first; and
  `GeneratedOnce`, because `serviceInitialized` takes the mark off every row of the name
  (`servicedatabase.cpp:1709-1771`). On the bus, methods differ in kind, name or parameters, and
  no type has the name of the variant; over a socket, a class has a signature once. Lists are
  those of elements whose slots do not set properties again (`Reentrant` is `FALSE`).
- *ServiceOperations*. The engage count is the exact number of engaged managers; a place
  is told for each reply (queued, loading, answered by events on their way), so none is in two.
  `EngagedIsServed` is proved under `SameThread`, which is how the code is used.
- *SystemReadWriteLock*. A free lock with a waiting writer has a wake-up in the
  semaphore or a writer about to look. For readers the invariant bounds how many still
  acquire by the value of their semaphore, whenever the lock admits readers. The counts
  follow from the places of the threads by the cardinality lemmas, and with exact counts
  every step is one of the abstract lock or none of its variables changes.
- *ValueSpace*. Three invariants, each with the one before. `CountedIInv`: the records that
  are used are those some subscriber has (`DataShared`), and the count of a handle is the number
  of records and publishers at its path. Every operation moves one subscriber from one record
  to another, so one lemma says what that does to the holders of every path, and the
  actions only say which move they are. `ServedIInv`: the connections of a subscriber that
  its record counts are not fewer than its slots, and where they are not zero there is a wire or a
  subscriber died at that address (`WiresCounted`, `SlotsCounted`): connections are counted by
  address and survive the subscriber, so that the next one there has a count and no wire.
  `PendingIInv`: a subscriber that is owed a change has it in
  the queue, among the handles being told that are not told yet, or posted. None needs more
  than what the constants are; who is taken for a dead subscriber, which the properties except, is
  one the invariants tell.
- *SystemInfo*. `SystemInv` is, of the class that is looked at, its own invariant, proved
  from its `Init` and its `Next` alone; `BatteryProofs` has those of the four batteries and
  the facts about numbers, sequences and functions all rest on, `SystemInfoProofs` the others and the theorems
  `SystemTypes`, `WatchesAreServed`, `ReportsMatchReads`, `DevicesAreFollowed`.
  - *network* (`NetInv`). The wrapper's list follows the modems because the messages on the
    way lead from one to the other (`Leads`): a message more lengthens the track, one that is
    handled shortens it, and to listen anew leaves a list that is current; after a modem was missed
    (`missed`) nothing is claimed until then. Interfaces are
    asked for by their place in a list (`Ranked`), and what was told of a place is what the next
    read of it is compared with.
  - *battery on Linux* (`BatInv`). Who counts batteries only because *valid* is connected
    (`Forced`, `ForcedFor`) stops when it is not; what was told of each
    signal is what would be read (`BatToldAll`), through the snapshot that connecting takes.
  - *UPower* (`UPowerInv`). A battery that is there is in the map or will be (`Coming`): it is in
    the list being read, or in the message that says so, or the daemon's own start is still to be
    heard; and messages of its coming and going are in an order that ends with the last
    (`Ordered`). Who does not watch has nothing under way (`Unwatched`). This holds of one battery:
    those of several share a key at the start.
  - *input devices* (`InpInv`). An entry of the map whose node went has its removal among the
    messages (`EntriesLeave`), which rests on no two devices having one event node at a time; a
    manager's map is the filter of the shared one. *Model* (`ModelInv`): the rows are the devices
    the filter admits, each once; `updateDeviceList` is shown to make them so, a device at a time.
  - *device* (`DevInv`): the thermal state computed monitor by monitor is that of the worst
    sensor before the first gap. *Windows* (`WinNetInv`, `WinBatInv`), *QML* (`QmlInv`), *simulator*
    (`SimInv`): the properties are inductive with the types and with what was not read being untold.

  The assumptions say what the constants are; a name contains itself and a device's two nodes have
  names of their own.

Functions defined by recursion on numbers (a list folded over messages, the state after some
sensors) are reasoned about by the least number at which a statement fails: `LeastNat`,
`SetInduction` and `Recursion` in `BatteryProofs` are proved from the library's facts about
well-founded relations; they speak of sets of numbers, since the provers cannot instantiate the
library's induction theorems, which take an operator.

Only model-checked:

- liveness (`RequestsSettled`, `LeftClientsReclaimed`, `CallsReturn`, `PackagesDispatched`,
  `WritersBeforeReaders`, `ReadersNotForgotten`, `CompleteUnlessAborted`, `Answered`,
  `ChangesReported`, `Followed`), which these provers do not reach;
- `RegistryServed`: the registry layer walks through subtrees, handles and waits with `RECURSIVE`
  operators, each pass changing the state the next one sees, and the provers take no module that
  has one;
- `BatteryFollowed`: that an entry is *current* needs, beside what is proved, the order of the
  answers and changes of one interface among all; `DevicesFollowed` has the part that
  a battery is not lost.

## Findings

Each is a run that must find its property violated.

1. *A call times out with its answer received* (`objectendpoint.cpp:288, 617, 779`).
   A method call waits; a signal arrives and its slot reads a property. If the method's
   answer comes first, `functionReturned` stops the dispatch until the outer call
   leaves, which it cannot before the inner one: the property's answer stays in the queue
   until the inner wait has lasted 15 seconds.
2. *A user's choice is lost* (`databasemanager.cpp:785`). openDb's cleanup of *old*
   external defaults looks them up in the user's own database, where none is: all are
   reset to the latest version when the system's database is opened.
3. *A client sleeps for days* (`qremoteserviceregister_unix_p.cpp:406`). `runLocalEventLoop`
   exchanges seconds and microseconds, and `doStart`, unlike other callers, passes what is
   left of its ten seconds: 9950 ms become 950,000 seconds. The client wakes up early only
   if a file appears in `/tmp`, which it does not if the service ends before its setup.

### Promises the code does not keep

What a document or comment says and the code does not do is stated in the module all the
same, as a definition marked *(The code does not keep it; no run checks it.)*. To see a
counterexample, add it to the configuration.

| Definition | Module | What happens |
| --- | --- | --- |
| `FoundDefaultIsNoError` | `DatabaseManager` | `interfaceDefault` leaves the last error of an earlier operation when it finds a default at once (`databasemanager.cpp:514, 525`); `QServiceManager` then returns an invalid descriptor. |
| `RequestsComplete` | `ServiceOperations` | A thread terminated in a load leaves `inRequest` set in the processor, which outlives it (`qserviceoperations.cpp:158, 228`). |
| `RegisteredStays` | `DatabaseFile` | Two processes that open a new file at once: one finds no tables, the other makes them and registers, the first drops them. |
| `FailureHasReason`, `FailedAddKeepsOthers` | `ServiceManager` | A registration that fails in the plugin or the IPC path leaves no error; its undoing removes *all* packages of the name. |
| `AcceptedNamesService`, `AcceptedIsWhole`, `TypeFollowsLocation` | `ServiceMetaData` | A document without a service, or that ends too early, is accepted; `interfaces[0]` is then read of an empty list. A second `<service>` overrides checks of the first. |
| `InstancesReleased` | `DBusService` | The proxies of a client share one record, and nobody hears of a client that dies: objects are left and `allInstancesClosed()` is not emitted. |
| `RecordsCoverProxies` | `DBusService` | A proxy whose service died and was started again is released at the new process, whose record of the client goes down before the instance is looked at (`objectendpoint_dbus.cpp:168`): the releases that follow miss the one with which the instance would go, and it stays. |
| `SignalsComeOnce`, `ReturnsArrive`, `AnsweredWasRun` | `ServiceMetaObjectDBus` | Overloads that look alike on the bus are all delivered, twice; a method with an argument of a type of its own and a plain return loses the return; a `QVariant` that holds a list or map reaches no method, or the one without arguments, and is answered with success. |
| `SignalsAreHeard`, `NobodyCrashes` | `ServiceProxies` | Signals read together with the answer that makes the proxy are dropped; a service class not derived from `QObject` directly gives a meta object the client cannot read, and uses. |
| `NoneLost` | `ServiceLoader` | The handlers of a load that ends run before its manager is deleted (`qdeclarativeservice.cpp:252-263`): a load one of them begins loses the manager. Without background operations no request is made (`qservicemanager.cpp:540-544`) and *Loading* stays. |
| `ObjectOnlyWhenReady`, `PointersValid` | `ServiceLoader` | `m_serviceReply` is deleted twice, `m_serviceObject` is used after the service's end. |
| `UnmonitoredIsLeft` | `ServiceLists` | The old `ServiceList` updates without being asked to monitor. |
| `NoneMiscounted` | `ValueSpace` | A subscriber that dies with connections leaves their count behind under its address (`qvaluespacesubscriber.cpp:212-218`); one that is made there and shares the data finds a count, and is connected to nothing. |
| `ReportsUnderway` | `RegistryLayer` | A key that a handle waits at by proxy, deleted and made again, is not waited at. |
| `ModemsNotMissed` | `OfonoWrapper` | The modems are listed by a call and the signals of their coming and going asked for afterwards (`qofonowrapper.cpp:255-262`): who comes or goes between is missed for as long as the count is watched. |
| `ModeFollows` | `NetworkInfo` | The kept status of an interface that is unplugged is not polled any more, so its mode stays the current one. |
| `PowerSupplyMonitored` | `BatteryInfo` | Disconnecting one signal ends the watch another one needs, and the freed udev handle is used when the next is connected. |
| `CountFollows` | `UPowerBatteryInfo` | A battery that was unplugged is asked for its type when it is gone, and so never leaves the map; one told of twice is in it twice. |
| `DevicesKnown` | `InputInfo` | A device plugged in later whose message is handled before its event node is there stays unknown. |
| `StrengthReported`, `ModeReported`, `OneCallback` | `WindowsNetworkInfo` | A strength of 0 is told and not kept; the mode is told of wireless networks only; a callback is registered anew with each change of the status. |
| `ValidIsServed` | `WindowsBatteryInfo` | Batteries are numbered from 1, the index counts from 0: of battery 0 nothing is known. |
| `IndexIsOwn`, `LevelIsPercentage`, `NeverStuck` | `SimulatedBattery` | The index of one object is that of all; the level is over 100 between two updates; an object made in the nested loop of the first locks a mutex twice. |
| `SilentUnlessMonitored` | `DeclarativeNetworkInfo` | Signals connected by the constructor come without being monitored. |

### Seen on the way

Not stated as properties:

- *Services.* Two clients that start a service at once can be served by two processes: the
  second unlinks the socket of the first. A `GlobalInstance` then exists twice, although its
  documentation says that new requests get the same one. A signal of the service named like
  that of the IPC fault shadows it (`Shadowed` in `ServiceProxies`). The D-Bus session keeps
  *one* acceptance flag for all clients; only the first session of a service name is
  registered.
- *Service manager and files.* The error of a new manager is not initialised. A descriptor
  read before the plugin was initialised installs it a second time; a load at user scope of
  a service of the system never clears the mark; a removal at user scope uninstalls the
  system's plugin. A file made, changed or deleted
  between a look of the watcher and the watch that follows is not noticed until its next change,
  and services of a deleted file are not reported as removed. The names `i`+`11.0` and `i1`+`1.0`
  of two interfaces are taken for duplicates.
- *Value space.* A publisher and the registry layer's `value()` never give a handle back;
  a mixed list unsets a key; `startsWith` without a slash takes `ab` for a child of `a`;
  `value()` of a subscriber goes through the layers from the lowest priority, against
  `publ-subs.qdoc:83`; `setPath` with two connections leaves a wire to the old path. The
  registry layer closes keys of handles below a tree it resets.
- *Linux.* `connectBtPowered` connects nothing; UPower's current flow is the voltage times
  1000; a late input manager is not told `ready()`, and hot-plugged devices are known by other
  node names than listed ones; all batteries read at the start are kept under one key; the energy of a supply that is no battery
  is told as that of battery 0.
- *Windows.* WLAN handles are overwritten without being closed and chains of timers add
  up; the battery's remaining time divides by a voltage and a capacity that may be 0; `levelChanged` and
  `batteryCountChanged` are never emitted.
- *Simulator.* Four signals are never forwarded; the cycle count and temperature are
  read before they are set.
- *QML.* The loader connects again each time monitoring is turned on; a fault of an object
  that was let go of hits the new one.

## Not modelled

- In modelled parts: SQL errors, security tokens (a build option); several client end points
  polled by one thread, writes that fail half-way; what service objects do; the lock's
  construction and threads that die with it; a reply deleted before it finishes; system
  calls of a client that fail before it connects; threads of the Windows WLAN service within, not
  between, calls of the main thread; getters that hand on what a platform says and keep
  nothing (MAC addresses, mobile codes, features); the conversion of values to registry types; the
  XML tokenizer.
- Time, but for the length of the sleep in `doStart`: a timeout may come at any moment.
- The local-socket backend of Windows: a thin layer of `QLocalServer` over the instance
  manager and end points, which are modelled with the Unix backend. Read, and seen: a rejected
  end point is leaked, a second process's `removeServer` orphans the first.
- The slot invoker, which nothing in the repository uses.
- Other system information: the screen saver (a timer and a call), the aligned timer (built
  by no project file), Mir and macOS backends and the Windows device (calls with no state
  of their own), the WMI helper. Other QML elements hand a C++ object on. The tools are
  command lines over the service manager.

## What would come next

1. `ServiceStart` composed with the quitting of `ServiceInstances`: a client whose connection
   is in the backlog of a process that quits.
2. Several end points in one thread of `BlockingCalls`, and a reader that is re-entered
   through another end point.
3. The registry layer without `RECURSIVE` operators, and an inductive invariant for it; one for
   `BatteryFollowed`.
4. An abstract map of paths to values that the value space and both layers implement.
