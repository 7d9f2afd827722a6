---------------------------- MODULE DatabaseManager ----------------------------
(***************************************************************************)
(* databasemanager.cpp: every process has a DatabaseManager of its own     *)
(* over the same two files, the user's and the system's service database.  *)
(* User scope means both.  The default of an interface in the user's       *)
(* database may be an implementation in the system's: an external default. *)
(*                                                                         *)
(* One operation of the manager is a sequence of transactions, and those   *)
(* of other processes come between them; each is an action here.  Opening  *)
(* the system's database includes the cleanup of external defaults that    *)
(* openDb does, whichever operation needs the database.                    *)
(***************************************************************************)
EXTENDS Integers, FiniteSets

CONSTANTS Proc, Location, Service, Interface, Version, Id, NoId, MetaData,
          None

VARIABLES
  userRows, userDefaults, systemRows, systemDefaults,  \* the files
  isOpen,      \* the databases each process has a connection with
  lastError,   \* whether m_lastError is NoError or names an error
  pc, local,   \* where each process is in an operation, and its variables
  resetLost    \* a reset did not come to its end (history)

User == INSTANCE ServiceDatabase WITH rows <- userRows, defaults <- userDefaults
System == INSTANCE ServiceDatabase WITH rows <- systemRows, defaults <- systemDefaults

ASSUME ManagerAssumption == System!DatabaseAssumption
ASSUME NoneAssumption == None \notin Interface \X (Id \cup {NoId})

userDb == <<userRows, userDefaults>>
systemDb == <<systemRows, systemDefaults>>
vars == <<userDb, systemDb, isOpen, lastError, pc, local, resetLost>>

Scope == {"user", "system"}

\* QServiceInterfaceDescriptor, as an application holds it: it may be stale.
Descriptors ==
  UNION {{[scope |-> s, service |-> m.service, interface |-> iv[1], version |-> iv[2]] :
            iv \in m.interfaces} : s \in Scope, m \in MetaData}

Describe(rows, s) ==
  {[scope |-> s, service |-> r.service, interface |-> r.interface, version |-> r.version] :
     r \in rows}

\* The operations that go on to the system's file.  Which one it is at system
\* scope, and with what arguments, matters when it runs and is chosen there.
Calls == {"atSystemScope", "getInterfaces", "setInterfaceDefault", "interfaceDefault"}

\* The variables of an operation: the interface and ID it is about, the external
\* defaults still to clean up, the one being reset and the descriptors collected
\* for it.
Locals(c, about) == [call |-> c, about |-> about, todo |-> {}, reset |-> None,
                     found |-> {}]

Labels == {"idle", "openDb", "remove", "readUser", "readSystem", "choose",
           "setExternal", "run", "found"}

TypeOK ==
  /\ User!TypeOK /\ System!TypeOK
  /\ isOpen \in [Proc -> SUBSET Scope]
  /\ lastError \in [Proc -> {"NoError", "Error"}]
  /\ pc \in [Proc -> Labels]
  /\ \A p \in Proc :
       /\ local[p].call \in Calls \cup {None}
       /\ local[p].about \in (Interface \X (Id \cup {NoId})) \cup {None}
       /\ local[p].todo \subseteq Interface \X Id
       /\ local[p].reset \in (Interface \X Id) \cup {None}
       /\ local[p].found \subseteq Descriptors \cup Id
  /\ resetLost \in BOOLEAN

Init ==
  /\ User!Init /\ System!Init
  /\ isOpen = [p \in Proc |-> {}]
  /\ lastError = [p \in Proc |-> "NoError"]
  /\ pc = [p \in Proc |-> "idle"]
  /\ local = [p \in Proc |-> Locals(None, None)]
  /\ resetLost = FALSE

Goto(p, label) == pc' = [pc EXCEPT ![p] = label]
SetLocal(p, l) == local' = [local EXCEPT ![p] = l]
Error(p, code) == lastError' = [lastError EXCEPT ![p] = code]
OpenUser(p) == isOpen' = [isOpen EXCEPT ![p] = @ \cup {"user"}]
\* openDb sets m_lastError only when it has something to open.
OpenUserError(p) ==
  IF "user" \in isOpen[p] THEN UNCHANGED lastError ELSE Error(p, "NoError")

\* An operation returns.
Return(p) == Goto(p, "idle") /\ SetLocal(p, Locals(None, None))
Finish(p, code) == Return(p) /\ Error(p, code)

\* interfaceDefault returns a descriptor.
ReturnFound(p) == Goto(p, "found") /\ SetLocal(p, Locals(None, None))

\* A QUuid is drawn once: it names nothing else anywhere.
IdsInUse ==
  User!IdsOf(userRows) \cup System!IdsOf(systemRows)
  \cup {userDefaults[i] : i \in Interface} \cup {systemDefaults[i] : i \in Interface}
  \cup (UNION {{x[2] : x \in ({local[p].about, local[p].reset} \ {None}) \cup local[p].todo} :
                 p \in Proc})
  \cup (UNION {local[p].found : p \in Proc})

Drawn(meta, ids) == \A x \in meta.interfaces : ids[x] \notin IdsInUse
-----------------------------------------------------------------------------
(***************************************************************************)
(* Operations on the user's database alone: one transaction.               *)
(***************************************************************************)
RegisterUser(p, meta) ==
  /\ pc[p] = "idle" /\ OpenUser(p)
  /\ \/ /\ \E ids \in [meta.interfaces -> Id] :
             Drawn(meta, ids) /\ User!RegisterService(meta, ids)
        /\ Error(p, "NoError")
     \/ /\ ~User!Registrable(meta)
        /\ Error(p, "Error") /\ UNCHANGED userDb
  /\ UNCHANGED <<systemDb, pc, local, resetLost>>

UnregisterUser(p, s) ==
  /\ pc[p] = "idle" /\ OpenUser(p)
  /\ \/ User!UnregisterService(s) /\ Error(p, "NoError")
     \/ /\ \A r \in userRows : r.service # s
        /\ Error(p, "Error") /\ UNCHANGED userDb
  /\ UNCHANGED <<systemDb, pc, local, resetLost>>

\* setInterfaceDefault(d) in the user's database, for a descriptor of its own.
SetUserDefault(d) ==
  User!SetInterfaceDefault(d.service, d.interface, d.version)
NoUserDefault(d) ==
  User!Find(userRows, d.service, d.interface, d.version) = {} /\ UNCHANGED userDb

SetInterfaceDefaultUser(p, d) ==
  /\ pc[p] = "idle" /\ OpenUser(p) /\ d.scope = "user"
  /\ \/ SetUserDefault(d) /\ Error(p, "NoError")
     \/ NoUserDefault(d) /\ Error(p, "Error")
  /\ UNCHANGED <<systemDb, pc, local, resetLost>>

\* The user's database cannot be opened, or a descriptor of the user's is not one
\* to make the default at system scope.
Refuse(p) ==
  /\ pc[p] = "idle"
  /\ Error(p, "Error")
  /\ UNCHANGED <<userDb, systemDb, isOpen, pc, local, resetLost>>

\* interfaceDefault at user scope finds an implementation in the user's
\* database and returns it.
LocalDefault(p, i) ==
  /\ pc[p] = "idle" /\ OpenUser(p) /\ OpenUserError(p)
  /\ User!DefaultFound(i) /\ ReturnFound(p)
  /\ UNCHANGED <<userDb, systemDb, resetLost>>

\* QServiceManager looks at the last error, and drops the descriptor if it is one.
TakeFound(p) ==
  /\ pc[p] = "found" /\ Goto(p, "idle")
  /\ UNCHANGED <<userDb, systemDb, isOpen, lastError, local, resetLost>>
-----------------------------------------------------------------------------
(***************************************************************************)
(* Operations that go on to the system's database.                         *)
(***************************************************************************)
\* openDb(SystemScope) has nothing to do for a database already open.
Enter(p, c, about) ==
  /\ pc[p] = "idle"
  /\ SetLocal(p, Locals(c, about))
  /\ Goto(p, IF "system" \in isOpen[p] THEN "run" ELSE "openDb")
  /\ UNCHANGED <<userDb, systemDb, resetLost>>

BeginAtSystemScope(p) ==
  Enter(p, "atSystemScope", None) /\ UNCHANGED <<isOpen, lastError>>

\* getInterfaces and getServiceNames at user scope, and setInterfaceDefault there
\* with a descriptor of the system's, open both.
BeginAtUserScope(p) ==
  /\ \E c \in {"getInterfaces", "setInterfaceDefault"} : Enter(p, c, None)
  /\ OpenUser(p) /\ OpenUserError(p)

\* interfaceDefault at user scope reads an external default, or none.
BeginInterfaceDefault(p, i) ==
  /\ ~User!DefaultFound(i)
  /\ Enter(p, "interfaceDefault", <<i, userDefaults[i]>>)
  /\ OpenUser(p) /\ OpenUserError(p)

\* The file cannot be opened: operations at user scope make do with the user's.
OpenFails(p) ==
  /\ pc[p] = "openDb"
  /\ Finish(p, IF local[p].call = "getInterfaces" THEN "NoError" ELSE "Error")
  /\ UNCHANGED <<userDb, systemDb, isOpen, resetLost>>

-----------------------------------------------------------------------------
(***************************************************************************)
(* The reset of an external default, by openDb's cleanup for all of them   *)
(* (todo), or by interfaceDefault for the one it found stale.              *)
(***************************************************************************)
\* The next reset of the cleanup, which ends openDb when none is left.  Whether
\* a default is stale, openDb looks up in the user's database, where no external
\* one is.
Cleanup(p, todo) ==
  \/ /\ \E x \in todo : SetLocal(p, [local[p] EXCEPT !.todo = todo, !.reset = x,
                                                     !.found = {}])
     /\ Goto(p, "remove") /\ UNCHANGED lastError
  \/ /\ todo = {}
     /\ SetLocal(p, [local[p] EXCEPT !.todo = {}, !.reset = None, !.found = {}])
     /\ Goto(p, "run") /\ Error(p, "NoError")

\* openDb opens the database and asks for the external defaults to clean up.
OpenSystem(p) ==
  /\ pc[p] = "openDb"
  /\ isOpen' = [isOpen EXCEPT ![p] = @ \cup {"system"}]
  /\ Cleanup(p, IF "user" \in isOpen[p] THEN User!ExternalDefaults ELSE {})
  /\ UNCHANGED <<userDb, systemDb, resetLost>>

RemoveExternal(p) ==
  /\ pc[p] = "remove" /\ Goto(p, "readUser")
  /\ User!RemoveExternalDefault(local[p].reset[2])
  /\ UNCHANGED <<systemDb, isOpen, lastError, local, resetLost>>

ReadUser(p) ==
  /\ pc[p] = "readUser" /\ Goto(p, "readSystem")
  /\ SetLocal(p, [local[p] EXCEPT
       !.found = Describe(User!Implementing(userRows, local[p].reset[1]), "user")])
  /\ UNCHANGED <<userDb, systemDb, isOpen, lastError, resetLost>>

ReadSystem(p) ==
  /\ pc[p] = "readSystem" /\ Goto(p, "choose")
  /\ SetLocal(p, [local[p] EXCEPT
       !.found = @ \cup Describe(System!Implementing(systemRows, local[p].reset[1]), "system")])
  /\ UNCHANGED <<userDb, systemDb, isOpen, lastError, resetLost>>

\* The end of a reset: the next one of the cleanup, or interfaceDefault returns.
EndReset(p, code) ==
  IF local[p].todo # {}
  THEN Cleanup(p, local[p].todo \ {local[p].reset})
  ELSE Finish(p, code)

NothingFound(p) ==
  /\ pc[p] = "choose" /\ local[p].found = {}
  /\ EndReset(p, "Error")
  /\ UNCHANGED <<userDb, systemDb, isOpen, resetLost>>

\* latestDescriptor: the first of the highest version, the user's before the
\* system's.
LatestDescriptors(F) ==
  LET highest == {d \in F : \A e \in F : e.version <= d.version}
      ofUser == {d \in highest : d.scope = "user"}
  IN IF ofUser # {} THEN ofUser ELSE highest

\* Mutant: the latest descriptor is returned, but not made the default.
ResetToUserUnset(p) ==
  /\ pc[p] = "choose"
  /\ \E d \in LatestDescriptors(local[p].found) : d.scope = "user"
  /\ EndReset(p, "NoError")
  /\ UNCHANGED <<userDb, systemDb, isOpen, resetLost>>

\* setInterfaceDefault(UserScope) with the latest, whose result is not looked
\* at; an implementation in the system's database is looked up there first.
ResetToUser(p) ==
  /\ pc[p] = "choose"
  /\ \E d \in LatestDescriptors(local[p].found) :
       /\ d.scope = "user"
       /\ \/ SetUserDefault(d) /\ UNCHANGED resetLost
          \/ NoUserDefault(d) /\ resetLost' = TRUE
  /\ EndReset(p, "NoError")
  /\ UNCHANGED <<systemDb, isOpen>>

\* getInterfaceID
SystemIds(d) ==
  System!IdsOf(System!Find(systemRows, d.service, d.interface, d.version))

ResetToSystem(p) ==
  /\ pc[p] = "choose"
  /\ \E d \in LatestDescriptors(local[p].found) :
       /\ d.scope = "system"
       /\ \/ /\ SystemIds(d) = {} /\ resetLost' = TRUE
             /\ EndReset(p, "NoError")
          \/ /\ UNCHANGED <<resetLost, lastError>>
             /\ \E id \in SystemIds(d) : SetLocal(p, [local[p] EXCEPT !.found = {id}])
             /\ Goto(p, "setExternal")
  /\ UNCHANGED <<userDb, systemDb, isOpen>>
-----------------------------------------------------------------------------
Resetting(p) == local[p].reset # None

\* The second transaction of setInterfaceDefault with a system descriptor.
SetExternal(p) ==
  /\ pc[p] = "setExternal"
  /\ \E id \in local[p].found :
       IF Resetting(p)
       THEN User!SetExternalDefault(local[p].reset[1], id) /\ EndReset(p, "NoError")
       ELSE User!SetExternalDefault(local[p].about[1], id) /\ Finish(p, "NoError")
  /\ UNCHANGED <<systemDb, isOpen, resetLost>>

Runs(p, call) == pc[p] = "run" /\ local[p].call = call

RegisterSystem(p, meta) ==
  /\ Runs(p, "atSystemScope")
  /\ \/ /\ \E ids \in [meta.interfaces -> Id] :
             Drawn(meta, ids) /\ System!RegisterService(meta, ids)
        /\ Finish(p, "NoError")
     \/ /\ ~System!Registrable(meta)
        /\ Finish(p, "Error") /\ UNCHANGED systemDb
  /\ UNCHANGED <<userDb, isOpen, resetLost>>

UnregisterSystem(p, s) ==
  /\ Runs(p, "atSystemScope")
  /\ \/ System!UnregisterService(s) /\ Finish(p, "NoError")
     \/ /\ \A r \in systemRows : r.service # s
        /\ Finish(p, "Error") /\ UNCHANGED systemDb
  /\ UNCHANGED <<userDb, isOpen, resetLost>>

SetSystemDefault(p, d) ==
  /\ Runs(p, "atSystemScope")
  /\ \/ System!SetInterfaceDefault(d.service, d.interface, d.version) /\ Finish(p, "NoError")
     \/ SystemIds(d) = {} /\ Finish(p, "Error") /\ UNCHANGED systemDb
  /\ UNCHANGED <<userDb, isOpen, resetLost>>

\* The first transaction of setInterfaceDefault with a system descriptor.
FindSystemId(p, d) ==
  /\ Runs(p, "setInterfaceDefault")
  /\ \/ SystemIds(d) = {} /\ Finish(p, "Error")
     \/ \E id \in SystemIds(d) :
          /\ SetLocal(p, [local[p] EXCEPT !.about = <<d.interface, id>>, !.found = {id}])
          /\ Goto(p, "setExternal") /\ UNCHANGED lastError
  /\ UNCHANGED <<userDb, systemDb, isOpen, resetLost>>

\* interfaceDefault looks an external default up in the system's database; one
\* that is not there any more is reset.
ExternalDefault(p) ==
  /\ Runs(p, "interfaceDefault") /\ local[p].about[2] # NoId
  /\ IF local[p].about[2] \in System!IdsOf(systemRows)
     THEN ReturnFound(p) /\ Error(p, "NoError")
     ELSE /\ SetLocal(p, [local[p] EXCEPT !.reset = local[p].about])
          /\ Goto(p, "remove") /\ UNCHANGED lastError
  /\ UNCHANGED <<userDb, systemDb, isOpen, resetLost>>

\* interfaceDefault was asked for the system's default, or falls back on it.
SystemDefault(p, i) ==
  /\ \/ Runs(p, "atSystemScope")
     \/ Runs(p, "interfaceDefault") /\ local[p].about = <<i, NoId>>
  /\ IF System!DefaultFound(i)
     THEN ReturnFound(p) /\ UNCHANGED lastError
     ELSE Finish(p, "Error")
  /\ UNCHANGED <<userDb, systemDb, isOpen, resetLost>>

GetInterfaces(p) ==
  /\ Runs(p, "getInterfaces")
  /\ Finish(p, "NoError")
  /\ UNCHANGED <<userDb, systemDb, isOpen, resetLost>>

\* The process ends, within an operation or not; the next starts afresh.
Exit(p) ==
  /\ isOpen[p] # {}
  /\ isOpen' = [isOpen EXCEPT ![p] = {}]
  /\ Return(p) /\ Error(p, "NoError")
  /\ resetLost' = (resetLost \/ Resetting(p))
  /\ UNCHANGED <<userDb, systemDb>>
-----------------------------------------------------------------------------
Step(p) ==
  \/ \E meta \in MetaData : RegisterUser(p, meta) \/ RegisterSystem(p, meta)
  \/ \E s \in Service : UnregisterUser(p, s) \/ UnregisterSystem(p, s)
  \/ \E d \in Descriptors : SetInterfaceDefaultUser(p, d)
  \/ \E d \in Descriptors :
       d.scope = "system" /\ (SetSystemDefault(p, d) \/ FindSystemId(p, d))
  \/ \E i \in Interface :
       LocalDefault(p, i) \/ BeginInterfaceDefault(p, i) \/ SystemDefault(p, i)
  \/ TakeFound(p) \/ Refuse(p) \/ BeginAtSystemScope(p) \/ BeginAtUserScope(p) \/ OpenFails(p) \/ OpenSystem(p)
  \/ RemoveExternal(p) \/ ReadUser(p) \/ ReadSystem(p)
  \/ NothingFound(p) \/ ResetToUser(p) \/ ResetToSystem(p) \/ SetExternal(p)
  \/ ExternalDefault(p) \/ GetInterfaces(p)
  \/ Exit(p)

Next == \E p \in Proc : Step(p)

Spec == Init /\ [][Next]_vars
-----------------------------------------------------------------------------
\* No interleaving of processes leaves an interface of the system's database
\* without a default, or with another interface's.
SystemDefaultsComplete == System!DefaultsComplete

\* An interface implemented in the user's database has a default there, except
\* while some process resets it, or after a reset that was lost: its process
\* died, or its choice was unregistered between being listed and being set.
ResettingNow(i) ==
  \E p \in Proc : Resetting(p) /\ local[p].reset[1] = i
UserDefaultsComplete ==
  \A i \in Interface :
    User!Implementing(userRows, i) # {} /\ ~resetLost /\ ~ResettingNow(i)
    => userDefaults[i] # NoId

\* What the comment in openDb says, "cleanup and reset any old external
\* defaults": a default is not taken away while its implementation is there.
OnlyOldDefaultsReset ==
  [][\A p \in Proc : RemoveExternal(p) => local[p].reset[2] \notin System!IdsOf(systemRows)]_vars

\* What the comment on interfaceDefault says, "The last error is set when this
\* function is called": a default that was found does not come with an error.
\* (The code does not keep it; no run checks it.)
FoundDefaultIsNoError ==
  \A p \in Proc : pc[p] = "found" => lastError[p] = "NoError"
=============================================================================
