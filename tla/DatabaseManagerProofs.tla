-------------------------- MODULE DatabaseManagerProofs --------------------------
(***************************************************************************)
(* The managers of all processes together implement one ServiceDatabase on *)
(* the system's file, so what is proved of that holds of the file, for any *)
(* processes and however their transactions interleave.                    *)
(*                                                                         *)
(* The user's file is written by the managers alone but its defaults also  *)
(* name rows of the system's file, and an operation that replaces such a   *)
(* default is several transactions. Its invariant says what an operation   *)
(* holds at each label, that an ID belongs to one interface wherever it is *)
(* held, and that an interface without a default has a reset underway.     *)
(***************************************************************************)
EXTENDS DatabaseManager, TLAPS

File == INSTANCE ServiceDatabaseProofs WITH rows <- systemRows, defaults <- systemDefaults

\* The system's file as the manager sees it is the one of ServiceDatabaseProofs.
LEMMA SameAssumption == File!DatabaseAssumption
BY ManagerAssumption DEF System!DatabaseAssumption, File!DatabaseAssumption,
                         System!IsFiniteSet, File!IsFiniteSet

LEMMA SameInit == System!Init <=> File!Init
BY DEF System!Init, File!Init

LEMMA SameOperations ==
  /\ \A meta, ids : System!RegisterService(meta, ids) <=> File!RegisterService(meta, ids)
  /\ \A s : System!UnregisterService(s) <=> File!UnregisterService(s)
  /\ \A s, i, v : System!SetInterfaceDefault(s, i, v) <=> File!SetInterfaceDefault(s, i, v)
<1>1. ASSUME NEW meta, NEW ids
      PROVE  System!RegisterService(meta, ids) <=> File!RegisterService(meta, ids)
  BY DEF System!RegisterService, File!RegisterService, System!Registrable, File!Registrable,
         System!FreshIds, File!FreshIds, System!NewRows, File!NewRows, System!Find, File!Find,
         System!DefaultsWith, File!DefaultsWith, System!Implementing, File!Implementing,
         System!Latest, File!Latest, System!IdsOf, File!IdsOf
<1>2. ASSUME NEW s
      PROVE  System!UnregisterService(s) <=> File!UnregisterService(s)
  BY DEF System!UnregisterService, File!UnregisterService,
         System!DefaultsWithout, File!DefaultsWithout, System!Implementing, File!Implementing,
         System!Latest, File!Latest, System!IdsOf, File!IdsOf
<1>3. ASSUME NEW s, NEW i, NEW v
      PROVE  System!SetInterfaceDefault(s, i, v) <=> File!SetInterfaceDefault(s, i, v)
  BY DEF System!SetInterfaceDefault, File!SetInterfaceDefault, System!Find, File!Find
<1> QED
  BY <1>1, <1>2, <1>3

LEMMA SameNext == System!Next <=> File!Next
BY SameOperations DEF System!Next, File!Next

\* The services and interfaces an application may name are those of the metadata.
LEMMA DescriptorsShape ==
  ASSUME NEW d \in Descriptors
  PROVE  d.service \in Service /\ d.interface \in Interface /\ d.version \in Version
<1>1. PICK m \in MetaData : \E iv \in m.interfaces :
        d.service = m.service /\ d.interface = iv[1] /\ d.version = iv[2]
  BY DEF Descriptors
<1>2. m.service \in Service /\ m.interfaces \subseteq Interface \X Version
  BY ManagerAssumption DEF System!DatabaseAssumption
<1> QED
  BY <1>1, <1>2

\* Every step of every process is one operation on the system's file, or none.
LEMMA StepOnFile ==
  ASSUME NEW p \in Proc, Step(p)
  PROVE  System!Next \/ UNCHANGED systemDb
<1>1. ASSUME NEW meta \in MetaData, RegisterSystem(p, meta)
      PROVE  System!Next \/ UNCHANGED systemDb
  BY <1>1 DEF RegisterSystem, System!Next
<1>2. ASSUME NEW s \in Service, UnregisterSystem(p, s)
      PROVE  System!Next \/ UNCHANGED systemDb
  BY <1>2 DEF UnregisterSystem, System!Next
<1>3. ASSUME NEW d \in Descriptors, SetSystemDefault(p, d)
      PROVE  System!Next \/ UNCHANGED systemDb
  BY <1>3, DescriptorsShape DEF SetSystemDefault, System!Next
<1>4. CASE \E meta \in MetaData : RegisterUser(p, meta)
  BY <1>4 DEF RegisterUser
<1>5. CASE \E s \in Service : UnregisterUser(p, s)
  BY <1>5 DEF UnregisterUser
<1>6. CASE \E d \in Descriptors : SetInterfaceDefaultUser(p, d) \/ FindSystemId(p, d)
  BY <1>6 DEF SetInterfaceDefaultUser, FindSystemId
<1>7. CASE \E i \in Interface :
             LocalDefault(p, i) \/ BeginInterfaceDefault(p, i) \/ SystemDefault(p, i)
  BY <1>7 DEF LocalDefault, BeginInterfaceDefault, Enter, SystemDefault
<1>8. CASE \/ TakeFound(p) \/ Refuse(p) \/ BeginAtSystemScope(p) \/ BeginAtUserScope(p)
           \/ OpenFails(p) \/ OpenSystem(p)
  BY <1>8 DEF TakeFound, Refuse, BeginAtSystemScope, BeginAtUserScope, Enter, OpenFails,
              OpenSystem
<1>9. CASE \/ RemoveExternal(p) \/ ReadUser(p) \/ ReadSystem(p) \/ NothingFound(p)
           \/ ResetToUser(p) \/ ResetToSystem(p) \/ SetExternal(p)
  BY <1>9 DEF RemoveExternal, ReadUser, ReadSystem, NothingFound, ResetToUser, ResetToSystem,
              SetExternal
<1>10. CASE ExternalDefault(p) \/ GetInterfaces(p) \/ Exit(p)
  BY <1>10 DEF ExternalDefault, GetInterfaces, Exit
<1> QED
  BY <1>1, <1>2, <1>3, <1>4, <1>5, <1>6, <1>7, <1>8, <1>9, <1>10 DEF Step

LEMMA FileStep == [Next]_vars => [System!Next]_systemDb
<1>1. CASE Next
  BY <1>1, StepOnFile DEF Next
<1>2. CASE UNCHANGED vars
  BY <1>2 DEF vars
<1> QED
  BY <1>1, <1>2

\* The managers implement one database on the system's file: no interleaving of
\* their transactions does to it what single operations in some order do not.
THEOREM ManagersImplementDatabase == Spec => System!Spec
<1>1. Init => System!Init
  BY DEF Init
<1>2. [Next]_vars => [System!Next]_(System!databaseVars)
  BY FileStep DEF System!databaseVars, systemDb
<1> QED
  BY <1>1, <1>2, PTL DEF Spec, System!Spec

LEMMA FileInvariance == Spec => []File!IInv
<1>1. Init => File!IInv
  BY SameInit, SameAssumption, File!InitEstablishes DEF Init
<1>2. File!IInv /\ [Next]_vars => File!IInv'
  <2>1. [Next]_vars => [File!Next]_(File!databaseVars)
    BY FileStep, SameNext DEF File!databaseVars, systemDb
  <2> QED
    BY <2>1, SameAssumption, File!StepPreserves
<1> QED
  BY <1>1, <1>2, PTL DEF Spec

\* Registering, unregistering and choosing defaults from any number of processes,
\* each of which may die at any time, leaves every interface implemented in the
\* system's database with a default that is one of its implementations there.
THEOREM SystemDefaultsKept == Spec => []SystemDefaultsComplete
<1>1. File!IInv => SystemDefaultsComplete
  BY DEF File!IInv, SystemDefaultsComplete, File!DefaultsComplete, System!DefaultsComplete,
         File!Implementing, System!Implementing, File!IdsOf, System!IdsOf
<1> QED
  BY FileInvariance, <1>1, PTL
-----------------------------------------------------------------------------
(***************************************************************************)
(* The user's database.                                                    *)
(***************************************************************************)
UserFile == INSTANCE ServiceDatabaseProofs WITH rows <- userRows, defaults <- userDefaults

LEMMA SameUserAssumption == UserFile!DatabaseAssumption
BY ManagerAssumption DEF System!DatabaseAssumption, UserFile!DatabaseAssumption,
                         System!IsFiniteSet, UserFile!IsFiniteSet

LEMMA SameUserOperations ==
  /\ \A meta, ids : User!RegisterService(meta, ids) <=> UserFile!RegisterService(meta, ids)
  /\ \A s : User!UnregisterService(s) <=> UserFile!UnregisterService(s)
  /\ \A s, i, v : User!SetInterfaceDefault(s, i, v) <=> UserFile!SetInterfaceDefault(s, i, v)
<1>1. ASSUME NEW meta, NEW ids
      PROVE  User!RegisterService(meta, ids) <=> UserFile!RegisterService(meta, ids)
  BY DEF User!RegisterService, UserFile!RegisterService, User!Registrable, UserFile!Registrable,
         User!FreshIds, UserFile!FreshIds, User!NewRows, UserFile!NewRows, User!Find, UserFile!Find,
         User!DefaultsWith, UserFile!DefaultsWith, User!Implementing, UserFile!Implementing,
         User!Latest, UserFile!Latest, User!IdsOf, UserFile!IdsOf
<1>2. ASSUME NEW s
      PROVE  User!UnregisterService(s) <=> UserFile!UnregisterService(s)
  BY DEF User!UnregisterService, UserFile!UnregisterService,
         User!DefaultsWithout, UserFile!DefaultsWithout, User!Implementing, UserFile!Implementing,
         User!Latest, UserFile!Latest, User!IdsOf, UserFile!IdsOf
<1>3. ASSUME NEW s, NEW i, NEW v
      PROVE  User!SetInterfaceDefault(s, i, v) <=> UserFile!SetInterfaceDefault(s, i, v)
  BY DEF User!SetInterfaceDefault, UserFile!SetInterfaceDefault, User!Find, UserFile!Find
<1> QED
  BY <1>1, <1>2, <1>3

-----------------------------------------------------------------------------
(***************************************************************************)
(* Where a process is in an operation, and what it holds.                  *)
(***************************************************************************)
Descriptor == [scope : Scope, service : Service, interface : Interface, version : Version]

LocalType == [call : Calls \cup {None},
              about : (Interface \X (Id \cup {NoId})) \cup {None},
              todo : SUBSET (Interface \X Id),
              reset : (Interface \X Id) \cup {None},
              found : SUBSET (Descriptor \cup Id)]

InReset == {"remove", "readUser", "readSystem", "choose", "setExternal"}

\* What the variables l of an operation are at the label lab.
LocalOK(lab, l) ==
  /\ lab \in Labels /\ l \in LocalType
  /\ l.reset # None => lab \in InReset
  /\ lab \in InReset => l.reset # None \/ lab = "setExternal"
  /\ lab \in {"readSystem", "choose"} =>
       \A d \in l.found : d \in Descriptor /\ d.interface = l.reset[1]
  /\ lab = "setExternal" => l.found \subseteq Id /\ (l.reset # None \/ l.about # None)
  /\ lab \notin {"idle", "found"} /\ l.call = "interfaceDefault" => l.about # None

\* The interface whose default is set.
Target(l) == IF l.reset # None THEN l.reset[1] ELSE l.about[1]

\* The operation holds the ID id as one of the interface i.
Holds(lab, l, i, id) ==
  \/ l.about = <<i, id>> \/ l.reset = <<i, id>> \/ <<i, id>> \in l.todo
  \/ lab = "setExternal" /\ id \in l.found /\ Target(l) = i

Names(i, id) ==
  \/ UserFile!Named(i, id) \/ File!Named(i, id)
  \/ \E p \in Proc : Holds(pc[p], local[p], i, id)

\* A reset of the default of i that does not end without setting it.
Resets(lab, l, i) ==
  /\ l.reset # None /\ l.reset[1] = i
  /\ lab \in {"readSystem", "choose"} => l.found # {}

Types ==
  /\ UserFile!FileTypes /\ File!FileTypes
  /\ pc \in [Proc -> Labels] /\ local \in [Proc -> LocalType]
  /\ \A p \in Proc : LocalOK(pc[p], local[p])

OneInterface ==
  \A i, j \in Interface, id \in Id : Names(i, id) /\ Names(j, id) => i = j

ResetUnderway ==
  \A i \in Interface :
    UserFile!Bare(i) /\ ~resetLost => \E p \in Proc : Resets(pc[p], local[p], i)

UserInv == Types /\ OneInterface /\ ResetUnderway

-----------------------------------------------------------------------------
(***************************************************************************)
(* What a step does to the variables of its process.                       *)
(***************************************************************************)
Move(p, lab, l) == Goto(p, lab) /\ SetLocal(p, l)

\* It moves on, holding no ID that did not belong to its interface before, and
\* ends no reset but of the interfaces K.
Moves(p, K) ==
  \E lab \in Labels, l \in LocalType :
    /\ Move(p, lab, l) /\ LocalOK(lab, l)
    /\ \A i \in Interface, id \in Id : Holds(lab, l, i, id) => Names(i, id)
    /\ \A i \in Interface \ K : Resets(pc[p], local[p], i) => Resets(lab, l, i)

LEMMA Apart ==
  /\ \A i \in Interface, id \in Id \cup {NoId} : <<i, id>> # None
  /\ NoId \notin Id
  BY NoneAssumption, ManagerAssumption DEF System!DatabaseAssumption

LEMMA Moved ==
  ASSUME Types, NEW p \in Proc, NEW lab, NEW l, Move(p, lab, l)
  PROVE  \A q \in Proc : IF q = p THEN pc'[q] = lab /\ local'[q] = l
                         ELSE pc'[q] = pc[q] /\ local'[q] = local[q]
  BY DEF Types, Move, Goto, SetLocal

LEMMA Started ==
  /\ Locals(None, None) \in LocalType
  /\ LocalOK("idle", Locals(None, None)) /\ LocalOK("found", Locals(None, None))
  /\ \A i \in Interface, id \in Id :
       ~Holds("idle", Locals(None, None), i, id) /\ ~Holds("found", Locals(None, None), i, id)
  BY Apart DEF LocalOK, LocalType, Locals, Labels, Holds, InReset

LEMMA LocalIs ==
  ASSUME Types, NEW p \in Proc
  PROVE  LocalOK(pc[p], local[p]) /\ local[p] \in LocalType /\ pc[p] \in Labels
  BY DEF Types

LEMMA Stays ==
  ASSUME Types, NEW p \in Proc, UNCHANGED <<pc, local>>
  PROVE  Moves(p, {})
<1>1. LocalOK(pc[p], local[p]) /\ local[p] \in LocalType /\ pc[p] \in Labels
  BY LocalIs
<1>2. Move(p, pc[p], local[p])
  BY DEF Move, Goto, SetLocal, Types
<1>3. \A i \in Interface, id \in Id : Holds(pc[p], local[p], i, id) => Names(i, id)
  BY DEF Names
<1> QED
  BY <1>1, <1>2, <1>3 DEF Moves

\* An operation that resets nothing, or has nothing to set the default to, returns.
LEMMA Returns ==
  ASSUME Types, NEW p \in Proc, Return(p) \/ ReturnFound(p),
         NEW K, \A i \in Interface \ K : ~Resets(pc[p], local[p], i)
  PROVE  Moves(p, K)
  BY Started DEF Return, ReturnFound, Moves, Move, Labels

LEMMA Enters ==
  ASSUME Types, NEW p \in Proc, NEW c \in Calls, NEW about, Enter(p, c, about),
         \/ about = None /\ c # "interfaceDefault"
         \/ \E i \in Interface : about = <<i, userDefaults[i]>>
  PROVE  Moves(p, {})
<1> DEFINE l == Locals(c, about)
           lab == IF "system" \in isOpen[p] THEN "run" ELSE "openDb"
<1>1. Move(p, lab, l) /\ pc[p] = "idle"
  BY DEF Enter, Move
<1>2. about \in (Interface \X (Id \cup {NoId})) \cup {None}
  BY DEF Types, UserFile!FileTypes
<1>3. lab \in {"run", "openDb"} /\ lab \in Labels
  BY DEF Labels
<1> HIDE DEF lab
<1>4. l \in LocalType /\ LocalOK(lab, l)
  BY <1>2, <1>3, Apart DEF LocalOK, LocalType, Locals, InReset, Types, UserFile!FileTypes
<1>5. ASSUME NEW i \in Interface, NEW id \in Id, Holds(lab, l, i, id)
      PROVE  Names(i, id)
  <2>1. about = <<i, id>>
    BY <1>3, <1>5, Apart DEF Holds, Locals
  <2>2. userDefaults[i] = id
    BY <2>1, Apart
  <2> QED
    BY <2>2 DEF Names, UserFile!Named
<1>6. \A i \in Interface : ~Resets(pc[p], local[p], i)
  BY <1>1, LocalIs DEF LocalOK, Resets, InReset
<1> QED
  BY <1>1, <1>3, <1>4, <1>5, <1>6 DEF Moves

\* The cleanup goes on to the next of todo.
LEMMA Cleans ==
  ASSUME Types, NEW p \in Proc, NEW todo \in SUBSET (Interface \X Id), Cleanup(p, todo),
         pc[p] \notin {"idle", "found"},
         \A i \in Interface, id \in Id : <<i, id>> \in todo => Names(i, id),
         NEW K, \A i \in Interface \ K : ~Resets(pc[p], local[p], i)
  PROVE  Moves(p, K)
<1>1. LocalOK(pc[p], local[p]) /\ local[p] \in LocalType
  BY LocalIs
<1>2. \A i \in Interface, id \in Id : local[p].about = <<i, id>> => Names(i, id)
  BY DEF Names, Holds
<1>3. ASSUME NEW x \in todo,
             Move(p, "remove", [local[p] EXCEPT !.todo = todo, !.reset = x, !.found = {}])
      PROVE  Moves(p, K)
  <2> DEFINE l == [local[p] EXCEPT !.todo = todo, !.reset = x, !.found = {}]
  <2>1. /\ l \in LocalType /\ l.reset = x /\ l.todo = todo /\ l.found = {}
        /\ l.about = local[p].about /\ l.call = local[p].call
    BY <1>1 DEF LocalType
  <2>2. x # None /\ x \in Interface \X Id
    BY Apart
  <2> HIDE DEF l
  <2>3. LocalOK("remove", l)
    BY <1>1, <2>1, <2>2 DEF LocalOK, Labels, InReset
  <2>4. \A i \in Interface, id \in Id : Holds("remove", l, i, id) => Names(i, id)
    BY <1>2, <2>1 DEF Holds
  <2> QED
    BY <1>3, <2>1, <2>3, <2>4 DEF Moves, Labels, l
<1>4. ASSUME todo = {},
             Move(p, "run", [local[p] EXCEPT !.todo = {}, !.reset = None, !.found = {}])
      PROVE  Moves(p, K)
  <2> DEFINE l == [local[p] EXCEPT !.todo = {}, !.reset = None, !.found = {}]
  <2>1. /\ l \in LocalType /\ l.reset = None /\ l.todo = {} /\ l.found = {}
        /\ l.about = local[p].about /\ l.call = local[p].call
    BY <1>1 DEF LocalType
  <2> HIDE DEF l
  <2>3. LocalOK("run", l)
    BY <1>1, <2>1 DEF LocalOK, Labels, InReset
  <2>4. \A i \in Interface, id \in Id : Holds("run", l, i, id) => Names(i, id)
    BY <1>2, <2>1, Apart DEF Holds
  <2> QED
    BY <1>4, <2>1, <2>3, <2>4 DEF Moves, Labels, l
<1> QED
  BY <1>3, <1>4 DEF Cleanup, Move

\* A reset that no default depends on ends.
LEMMA Ends ==
  ASSUME Types, NEW p \in Proc, NEW code, EndReset(p, code), pc[p] \in InReset,
         NEW K, \A i \in Interface \ K : ~Resets(pc[p], local[p], i)
  PROVE  Moves(p, K)
<1>1. CASE local[p].todo # {}
  <2> DEFINE todo == local[p].todo \ {local[p].reset}
  <2>1. todo \in SUBSET (Interface \X Id)
    BY LocalIs DEF LocalType
  <2>2. \A i \in Interface, id \in Id : <<i, id>> \in todo => Names(i, id)
    BY DEF Names, Holds
  <2>3. Cleanup(p, todo)
    BY <1>1 DEF EndReset
  <2>4. pc[p] \notin {"idle", "found"}
    BY DEF InReset
  <2> HIDE DEF todo
  <2> QED
    BY <2>1, <2>2, <2>3, <2>4, Cleans
<1>2. CASE local[p].todo = {}
  BY <1>2, Returns DEF EndReset, Finish
<1> QED
  BY <1>1, <1>2

-----------------------------------------------------------------------------
(***************************************************************************)
(* What a step does to the files.                                          *)
(***************************************************************************)
FileTypesNext == UserFile!FileTypes' /\ File!FileTypes'

\* No ID comes to belong to another interface.
FilesKeep ==
  /\ FileTypesNext
  /\ \A i \in Interface, id \in Id :
       UserFile!Named(i, id)' \/ File!Named(i, id)' => Names(i, id)

\* Rows are added under new IDs.
FilesAdd ==
  \E meta \in MetaData : \E ids \in [meta.interfaces -> Id] :
    /\ Drawn(meta, ids) /\ \A x, y \in meta.interfaces : ids[x] = ids[y] => x = y
    /\ FileTypesNext
    /\ \A i \in Interface, id \in Id :
         UserFile!Named(i, id)' \/ File!Named(i, id)' =>
           Names(i, id) \/ \E iv \in meta.interfaces : iv[1] = i /\ ids[iv] = id

\* An interface is left without a default only to the one that resets it.
Leaves(p, K) ==
  \A i \in Interface :
    UserFile!Bare(i)' /\ ~resetLost' =>
      i \notin K /\ ~resetLost /\ (UserFile!Bare(i) \/ Resets(pc[p], local[p], i))

LEMMA UserKept ==
  ASSUME Types, UNCHANGED userDb
  PROVE  /\ UserFile!FileTypes'
         /\ \A i \in Interface, id \in Id : UserFile!Named(i, id)' => Names(i, id)
         /\ \A i \in Interface : UserFile!Bare(i)' => UserFile!Bare(i)
  BY DEF userDb, Types, UserFile!FileTypes, UserFile!Named, UserFile!Bare,
         UserFile!Implementing, Names

LEMMA SystemKept ==
  ASSUME Types, UNCHANGED systemDb
  PROVE  /\ File!FileTypes'
         /\ \A i \in Interface, id \in Id : File!Named(i, id)' => Names(i, id)
  BY DEF systemDb, Types, File!FileTypes, File!Named, Names

LEMMA FilesKept ==
  ASSUME Types, UNCHANGED <<userDb, systemDb>>
  PROVE  FilesKeep
  BY UserKept, SystemKept DEF FilesKeep, FileTypesNext

\* A new ID belongs to nothing yet.
LEMMA NamesInUse ==
  ASSUME Types, NEW i \in Interface, NEW id \in Id, Names(i, id)
  PROVE  id \in IdsInUse
<1> USE Apart
<1>1. CASE UserFile!Named(i, id)
  BY <1>1 DEF UserFile!Named, IdsInUse, User!IdsOf
<1>2. CASE File!Named(i, id)
  BY <1>2 DEF File!Named, IdsInUse, System!IdsOf
<1>3. ASSUME NEW p \in Proc, Holds(pc[p], local[p], i, id)
      PROVE  id \in IdsInUse
  <2>1. CASE id \in local[p].found
    <3>1. id \in UNION {local[q].found : q \in Proc}
      BY <2>1
    <3> QED
      BY <3>1 DEF IdsInUse
  <2>2. CASE \/ local[p].about = <<i, id>> \/ local[p].reset = <<i, id>>
             \/ <<i, id>> \in local[p].todo
    <3>1. <<i, id>> \in ({local[p].about, local[p].reset} \ {None}) \cup local[p].todo
      BY <2>2
    <3>2. id \in {x[2] : x \in ({local[p].about, local[p].reset} \ {None}) \cup local[p].todo}
      BY <3>1
    <3> QED
      BY <3>2 DEF IdsInUse
  <2> QED
    BY <1>3, <2>1, <2>2 DEF Holds
<1> QED
  BY <1>1, <1>2, <1>3 DEF Names

LEMMA TypesStep ==
  ASSUME Types, NEW p \in Proc, NEW K, Moves(p, K), FileTypesNext
  PROVE  Types'
<1>1. PICK lab \in Labels, l \in LocalType : Move(p, lab, l) /\ LocalOK(lab, l)
  BY DEF Moves
<1>2. \A q \in Proc : LocalOK(pc'[q], local'[q])
  BY <1>1, Moved DEF Types
<1>3. pc' \in [Proc -> Labels] /\ local' \in [Proc -> LocalType]
  BY <1>1 DEF Move, Goto, SetLocal, Types
<1> QED
  BY <1>2, <1>3 DEF Types, FileTypesNext

LEMMA NamesStep ==
  ASSUME Types, OneInterface, NEW p \in Proc, NEW K, Moves(p, K), FilesKeep \/ FilesAdd
  PROVE  OneInterface'
<1>1. PICK lab \in Labels, l \in LocalType :
        Move(p, lab, l) /\ \A i \in Interface, id \in Id : Holds(lab, l, i, id) => Names(i, id)
  BY DEF Moves
<1>2. ASSUME NEW q \in Proc, NEW i \in Interface, NEW id \in Id, Holds(pc'[q], local'[q], i, id)
      PROVE  Names(i, id)
  <2>1. CASE q = p
    BY <1>1, <1>2, <2>1, Moved
  <2>2. CASE q # p
    <3>1. Holds(pc[q], local[q], i, id)
      BY <1>1, <1>2, <2>2, Moved
    <3> QED
      BY <3>1 DEF Names
  <2> QED
    BY <2>1, <2>2
<1>3. CASE FilesKeep
  <2>1. \A i \in Interface, id \in Id : Names(i, id)' => Names(i, id)
    BY <1>2, <1>3 DEF FilesKeep, Names
  <2> QED
    BY <2>1 DEF OneInterface
<1>4. CASE FilesAdd
  <2>1. PICK meta \in MetaData : \E ids \in [meta.interfaces -> Id] :
           /\ Drawn(meta, ids) /\ \A x, y \in meta.interfaces : ids[x] = ids[y] => x = y
           /\ \A i \in Interface, id \in Id :
                UserFile!Named(i, id)' \/ File!Named(i, id)' =>
                  Names(i, id) \/ \E iv \in meta.interfaces : iv[1] = i /\ ids[iv] = id
    BY <1>4 DEF FilesAdd
  <2>2. PICK ids \in [meta.interfaces -> Id] :
           /\ Drawn(meta, ids) /\ \A x, y \in meta.interfaces : ids[x] = ids[y] => x = y
           /\ \A i \in Interface, id \in Id :
                UserFile!Named(i, id)' \/ File!Named(i, id)' =>
                  Names(i, id) \/ \E iv \in meta.interfaces : iv[1] = i /\ ids[iv] = id
    BY <2>1
  <2>3. \A i \in Interface, id \in Id :
          Names(i, id)' => Names(i, id) \/ \E iv \in meta.interfaces : iv[1] = i /\ ids[iv] = id
    BY <1>2, <2>2 DEF Names
  <2>4. \A i \in Interface, id \in Id : Names(i, id) => \A iv \in meta.interfaces : ids[iv] # id
    BY <2>2, NamesInUse DEF Drawn
  <2> SUFFICES ASSUME NEW i \in Interface, NEW j \in Interface, NEW id \in Id,
                      Names(i, id)', Names(j, id)'
               PROVE  i = j
    BY DEF OneInterface
  <2>5. CASE Names(i, id) /\ Names(j, id)
    BY <2>5 DEF OneInterface
  <2>6. CASE ~Names(i, id) \/ ~Names(j, id)
    BY <2>2, <2>3, <2>4, <2>6
  <2> QED
    BY <2>5, <2>6
<1> QED
  BY <1>3, <1>4

LEMMA ResetStep ==
  ASSUME Types, ResetUnderway, NEW p \in Proc, NEW K, Moves(p, K), Leaves(p, K)
  PROVE  ResetUnderway'
<1>1. PICK lab \in Labels, l \in LocalType :
        /\ Move(p, lab, l)
        /\ \A i \in Interface \ K : Resets(pc[p], local[p], i) => Resets(lab, l, i)
  BY DEF Moves
<1> SUFFICES ASSUME NEW i \in Interface, UserFile!Bare(i)', ~resetLost'
             PROVE  \E q \in Proc : Resets(pc'[q], local'[q], i)
  BY DEF ResetUnderway
<1>2. i \notin K /\ ~resetLost /\ (UserFile!Bare(i) \/ Resets(pc[p], local[p], i))
  BY DEF Leaves
<1>3. PICK q \in Proc : Resets(pc[q], local[q], i)
  BY <1>2 DEF ResetUnderway
<1>4. Resets(pc'[q], local'[q], i)
  <2>1. CASE q = p
    BY <1>1, <1>2, <1>3, <2>1, Moved
  <2>2. CASE q # p
    BY <1>1, <1>3, <2>2, Moved
  <2> QED
    BY <2>1, <2>2
<1> QED
  BY <1>4

-----------------------------------------------------------------------------
(***************************************************************************)
(* Every step, by what it does.                                            *)
(***************************************************************************)
Safe(p) ==
  \E K \in SUBSET Interface : Moves(p, K) /\ (FilesKeep \/ FilesAdd) /\ Leaves(p, K)

LEMMA NotResetting ==
  ASSUME Types, NEW p \in Proc, pc[p] \notin InReset
  PROVE  \A i \in Interface : ~Resets(pc[p], local[p], i)
  BY LocalIs DEF LocalOK, Resets

\* A step that leaves the files alone and loses no reset.
LEMMA QuietSafe ==
  ASSUME Types, NEW p \in Proc, Moves(p, {}), UNCHANGED <<userDb, systemDb, resetLost>>
  PROVE  Safe(p)
<1>1. FilesKeep /\ Leaves(p, {})
  BY FilesKept, UserKept DEF Leaves
<1> QED
  BY <1>1 DEF Safe

\* A step that does to the user's file what keeps its defaults.
LEMMA UserSafe ==
  ASSUME Types, NEW p \in Proc, Moves(p, {}), UNCHANGED <<systemDb, resetLost>>,
         UserFile!FileTypes',
         \A i \in Interface, id \in Id : UserFile!Named(i, id)' => Names(i, id),
         \A i \in Interface : UserFile!Bare(i)' => UserFile!Bare(i)
  PROVE  Safe(p)
<1>1. FilesKeep /\ Leaves(p, {})
  BY SystemKept DEF FilesKeep, FileTypesNext, Leaves
<1> QED
  BY <1>1 DEF Safe

LEMMA SystemSafe ==
  ASSUME Types, NEW p \in Proc, Moves(p, {}), UNCHANGED <<userDb, resetLost>>,
         File!FileTypes',
         \A i \in Interface, id \in Id : File!Named(i, id)' => Names(i, id)
  PROVE  Safe(p)
<1>1. FilesKeep /\ Leaves(p, {})
  BY UserKept DEF FilesKeep, FileTypesNext, Leaves
<1> QED
  BY <1>1 DEF Safe

LEMMA RegisterUserSafe ==
  ASSUME Types, NEW p \in Proc, NEW meta \in MetaData, RegisterUser(p, meta)
  PROVE  Safe(p)
<1>1. Moves(p, {}) /\ UNCHANGED <<systemDb, resetLost>>
  BY Stays DEF RegisterUser
<1>2. CASE UNCHANGED userDb
  BY <1>1, <1>2, QuietSafe
<1>3. CASE \E ids \in [meta.interfaces -> Id] :
             Drawn(meta, ids) /\ User!RegisterService(meta, ids)
  <2>1. PICK ids \in [meta.interfaces -> Id] :
          Drawn(meta, ids) /\ UserFile!RegisterService(meta, ids)
    BY <1>3, SameUserOperations
  <2>2. /\ UserFile!FileTypes'
        /\ \A i \in Interface, id \in Id :
             UserFile!Named(i, id)' =>
               UserFile!Named(i, id) \/ \E iv \in meta.interfaces : iv[1] = i /\ ids[iv] = id
        /\ \A i \in Interface : UserFile!Bare(i)' => UserFile!Bare(i)
    BY <2>1, SameUserAssumption, UserFile!RegisterNames DEF Types
  <2>3. \A x, y \in meta.interfaces : ids[x] = ids[y] => x = y
    BY <2>1 DEF UserFile!RegisterService, UserFile!FreshIds
  <2>4. FilesAdd
    BY <1>1, <2>1, <2>2, <2>3, SystemKept DEF FilesAdd, FileTypesNext, Names
  <2>5. Leaves(p, {})
    BY <1>1, <2>2 DEF Leaves
  <2> QED
    BY <1>1, <2>4, <2>5 DEF Safe
<1> QED
  BY <1>2, <1>3 DEF RegisterUser

LEMMA RegisterSystemSafe ==
  ASSUME Types, NEW p \in Proc, NEW meta \in MetaData, RegisterSystem(p, meta)
  PROVE  Safe(p)
<1>1. Moves(p, {}) /\ UNCHANGED <<userDb, resetLost>>
  BY NotResetting, Returns DEF RegisterSystem, Runs, Finish, InReset
<1>2. CASE UNCHANGED systemDb
  BY <1>1, <1>2, QuietSafe
<1>3. CASE \E ids \in [meta.interfaces -> Id] :
             Drawn(meta, ids) /\ System!RegisterService(meta, ids)
  <2>1. PICK ids \in [meta.interfaces -> Id] :
          Drawn(meta, ids) /\ File!RegisterService(meta, ids)
    BY <1>3, SameOperations
  <2>2. /\ File!FileTypes'
        /\ \A i \in Interface, id \in Id :
             File!Named(i, id)' =>
               File!Named(i, id) \/ \E iv \in meta.interfaces : iv[1] = i /\ ids[iv] = id
    BY <2>1, SameAssumption, File!RegisterNames DEF Types
  <2>3. \A x, y \in meta.interfaces : ids[x] = ids[y] => x = y
    BY <2>1 DEF File!RegisterService, File!FreshIds
  <2>4. FilesAdd
    BY <1>1, <2>1, <2>2, <2>3, UserKept DEF FilesAdd, FileTypesNext, Names
  <2>5. Leaves(p, {})
    BY <1>1, UserKept DEF Leaves
  <2> QED
    BY <1>1, <2>4, <2>5 DEF Safe
<1> QED
  BY <1>2, <1>3 DEF RegisterSystem

LEMMA UserOperationSafe ==
  ASSUME Types, NEW p \in Proc,
         \/ \E s \in Service : UnregisterUser(p, s)
         \/ \E d \in Descriptors : SetInterfaceDefaultUser(p, d)
  PROVE  Safe(p)
<1>1. Moves(p, {}) /\ UNCHANGED <<systemDb, resetLost>>
  BY Stays DEF UnregisterUser, SetInterfaceDefaultUser
<1>2. CASE UNCHANGED userDb
  BY <1>1, <1>2, QuietSafe
<1>3. ASSUME NEW s \in Service, User!UnregisterService(s) PROVE Safe(p)
  <2>1. /\ UserFile!FileTypes'
        /\ \A i \in Interface, id \in Id : UserFile!Named(i, id)' => UserFile!Named(i, id)
        /\ \A i \in Interface : UserFile!Bare(i)' => UserFile!Bare(i)
    BY <1>3, SameUserOperations, SameUserAssumption, UserFile!UnregisterNames DEF Types
  <2> QED
    BY <1>1, <2>1, UserSafe DEF Names
<1>4. ASSUME NEW d \in Descriptors, SetUserDefault(d) PROVE Safe(p)
  <2>1. /\ UserFile!FileTypes'
        /\ \A i \in Interface, id \in Id : UserFile!Named(i, id)' => UserFile!Named(i, id)
        /\ \A i \in Interface : UserFile!Bare(i)' => UserFile!Bare(i)
    BY <1>4, DescriptorsShape, SameUserOperations, SameUserAssumption, UserFile!SetDefaultNames
       DEF Types, SetUserDefault
  <2> QED
    BY <1>1, <2>1, UserSafe DEF Names
<1> QED
  BY <1>2, <1>3, <1>4 DEF UnregisterUser, SetInterfaceDefaultUser, NoUserDefault

LEMMA SystemOperationSafe ==
  ASSUME Types, NEW p \in Proc,
         \/ \E s \in Service : UnregisterSystem(p, s)
         \/ \E d \in Descriptors : SetSystemDefault(p, d)
  PROVE  Safe(p)
<1>1. Moves(p, {}) /\ UNCHANGED <<userDb, resetLost>>
  BY NotResetting, Returns DEF UnregisterSystem, SetSystemDefault, Runs, Finish, InReset
<1>2. CASE UNCHANGED systemDb
  BY <1>1, <1>2, QuietSafe
<1>3. ASSUME NEW s \in Service, System!UnregisterService(s) PROVE Safe(p)
  <2>1. /\ File!FileTypes'
        /\ \A i \in Interface, id \in Id : File!Named(i, id)' => File!Named(i, id)
    BY <1>3, SameOperations, SameAssumption, File!UnregisterNames DEF Types
  <2> QED
    BY <1>1, <2>1, SystemSafe DEF Names
<1>4. ASSUME NEW d \in Descriptors, System!SetInterfaceDefault(d.service, d.interface, d.version)
      PROVE  Safe(p)
  <2>1. /\ File!FileTypes'
        /\ \A i \in Interface, id \in Id : File!Named(i, id)' => File!Named(i, id)
    BY <1>4, DescriptorsShape, SameOperations, SameAssumption, File!SetDefaultNames DEF Types
  <2> QED
    BY <1>1, <2>1, SystemSafe DEF Names
<1> QED
  BY <1>2, <1>3, <1>4 DEF UnregisterSystem, SetSystemDefault

\* A process begins an operation, ends one, or looks something up.
LEMMA LookSafe ==
  ASSUME Types, NEW p \in Proc,
         \/ \E i \in Interface : LocalDefault(p, i) \/ SystemDefault(p, i)
         \/ Refuse(p) \/ OpenFails(p) \/ GetInterfaces(p)
  PROVE  Safe(p)
<1>1. CASE Refuse(p)
  BY <1>1, Stays, QuietSafe DEF Refuse
<1>2. \/ /\ pc[p] \notin InReset
         /\ Return(p) \/ ReturnFound(p)
         /\ UNCHANGED <<userDb, systemDb, resetLost>>
      \/ Refuse(p)
  BY DEF LocalDefault, SystemDefault, OpenFails, GetInterfaces, Runs, Finish, InReset
<1> QED
  BY <1>1, <1>2, NotResetting, Returns, QuietSafe

LEMMA BeginSafe ==
  ASSUME Types, NEW p \in Proc,
         \/ \E i \in Interface : BeginInterfaceDefault(p, i)
         \/ BeginAtSystemScope(p) \/ BeginAtUserScope(p)
  PROVE  Safe(p)
<1>1. /\ \E c \in Calls : \E about :
           /\ Enter(p, c, about)
           /\ \/ about = None /\ c # "interfaceDefault"
              \/ \E i \in Interface : about = <<i, userDefaults[i]>>
      /\ UNCHANGED <<userDb, systemDb, resetLost>>
  BY DEF BeginInterfaceDefault, BeginAtSystemScope, BeginAtUserScope, Enter, Calls
<1> QED
  BY <1>1, Enters, QuietSafe

LEMMA TakeFoundSafe ==
  ASSUME Types, NEW p \in Proc, TakeFound(p)
  PROVE  Safe(p)
<1>1. LocalOK("found", local[p]) /\ local[p] \in LocalType /\ pc[p] = "found"
  BY LocalIs DEF TakeFound
<1>2. Move(p, "idle", local[p])
  BY DEF TakeFound, Move, SetLocal, Types
<1>3. LocalOK("idle", local[p]) /\ "idle" \in Labels
  BY <1>1 DEF LocalOK, InReset, Labels
<1>4. \A i \in Interface, id \in Id : Holds("idle", local[p], i, id) => Names(i, id)
  BY <1>1 DEF Names, Holds
<1>5. Moves(p, {})
  BY <1>1, <1>2, <1>3, <1>4, NotResetting DEF Moves, InReset
<1> QED
  BY <1>5, QuietSafe DEF TakeFound

LEMMA OpenSystemSafe ==
  ASSUME Types, NEW p \in Proc, OpenSystem(p)
  PROVE  Safe(p)
<1> DEFINE todo == IF "user" \in isOpen[p] THEN User!ExternalDefaults ELSE {}
<1>1. /\ todo \in SUBSET (Interface \X Id)
      /\ \A i \in Interface, id \in Id : <<i, id>> \in todo => userDefaults[i] = id
  BY DEF User!ExternalDefaults, Types, UserFile!FileTypes
<1>2. Cleanup(p, todo) /\ pc[p] = "openDb" /\ UNCHANGED <<userDb, systemDb, resetLost>>
  BY DEF OpenSystem
<1> HIDE DEF todo
<1>3. \A i \in Interface, id \in Id : <<i, id>> \in todo => Names(i, id)
  BY <1>1 DEF Names, UserFile!Named
<1>4. \A i \in Interface \ {} : ~Resets(pc[p], local[p], i)
  BY <1>2, NotResetting DEF InReset
<1>5. Moves(p, {})
  BY <1>1, <1>2, <1>3, <1>4, Cleans
<1> QED
  BY <1>2, <1>5, QuietSafe

LEMMA RemoveExternalSafe ==
  ASSUME Types, OneInterface, NEW p \in Proc, RemoveExternal(p)
  PROVE  Safe(p)
<1> DEFINE l == local[p]
<1>1. /\ pc[p] = "remove" /\ Goto(p, "readUser") /\ UNCHANGED <<systemDb, resetLost, local>>
      /\ userRows' = userRows
      /\ userDefaults' = [i \in Interface |-> IF userDefaults[i] = l.reset[2] THEN NoId
                                               ELSE userDefaults[i]]
  BY DEF RemoveExternal, User!RemoveExternalDefault
<1>2. LocalOK("remove", l) /\ l \in LocalType /\ l.reset # None /\ l.reset \in Interface \X Id
  <2>1. LocalOK("remove", l) /\ l \in LocalType
    BY <1>1, LocalIs
  <2>2. l.reset # None
    BY <2>1 DEF LocalOK, InReset
  <2> QED
    BY <2>1, <2>2 DEF LocalType
<1>3. PICK i \in Interface, id \in Id : l.reset = <<i, id>>
  BY <1>2
<1>4. Move(p, "readUser", l)
  BY <1>1 DEF Move, SetLocal, Types
<1>5. Names(i, id)
  BY <1>1, <1>3 DEF Names, Holds
<1>6. \A j \in Interface : userDefaults'[j] = IF userDefaults[j] = id THEN NoId ELSE userDefaults[j]
  BY <1>1, <1>3
<1>7. \A j \in Interface : userDefaults[j] = id => j = i
  BY <1>5 DEF OneInterface, Names, UserFile!Named
<1>8. \A j \in Interface, x \in Id : Holds("readUser", l, j, x) => Names(j, x)
  BY <1>1 DEF Names, Holds
<1>9. LocalOK("readUser", l) /\ "readUser" \in Labels
  BY <1>2 DEF LocalOK, InReset, Labels
<1>10. \A j \in Interface : Resets(pc[p], l, j) => Resets("readUser", l, j)
  BY DEF Resets
<1>11. Moves(p, {})
  BY <1>2, <1>4, <1>8, <1>9, <1>10 DEF Moves
<1>12. FilesKeep
  <2>1. UserFile!FileTypes'
    BY <1>1 DEF Types, UserFile!FileTypes
  <2>2. \A j \in Interface, x \in Id : UserFile!Named(j, x)' => Names(j, x)
    BY <1>1, <1>6, Apart DEF Names, UserFile!Named
  <2> QED
    BY <1>1, <2>1, <2>2, SystemKept DEF FilesKeep, FileTypesNext
<1>13. Leaves(p, {})
  <2> SUFFICES ASSUME NEW j \in Interface, UserFile!Bare(j)', ~UserFile!Bare(j)
               PROVE  Resets(pc[p], local[p], j)
    BY <1>1 DEF Leaves
  <2>1. j = i
    BY <1>1, <1>6, <1>7 DEF UserFile!Bare, UserFile!Implementing
  <2> QED
    BY <1>1, <1>2, <1>3, <2>1 DEF Resets
<1> QED
  BY <1>11, <1>12, <1>13 DEF Safe

LEMMA ReadUserSafe ==
  ASSUME Types, NEW p \in Proc, ReadUser(p)
  PROVE  Safe(p)
<1> DEFINE i == local[p].reset[1]
           f == Describe(User!Implementing(userRows, i), "user")
           l == [local[p] EXCEPT !.found = f]
<1>1. /\ LocalOK("readUser", local[p]) /\ local[p] \in LocalType /\ pc[p] = "readUser"
      /\ Move(p, "readSystem", l) /\ UNCHANGED <<userDb, systemDb, resetLost>>
  BY LocalIs DEF ReadUser, Move
<1>2. local[p].reset \in Interface \X Id /\ local[p].reset # None
  BY <1>1 DEF LocalOK, LocalType, InReset
<1>3. \A d \in f : d \in Descriptor /\ d.interface = i
  BY DEF Describe, User!Implementing, Types, UserFile!FileTypes, UserFile!Row, Descriptor, Scope
<1>4. UserFile!Bare(i) => f # {}
  BY DEF Describe, UserFile!Bare, UserFile!Implementing, User!Implementing
<1> HIDE DEF f
<1>5. /\ l \in LocalType /\ l.found = f /\ l.reset = local[p].reset /\ l.about = local[p].about
      /\ l.todo = local[p].todo /\ l.call = local[p].call
  BY <1>1, <1>3 DEF LocalType
<1> HIDE DEF l
<1>6. LocalOK("readSystem", l) /\ "readSystem" \in Labels
  BY <1>1, <1>3, <1>5 DEF LocalOK, InReset, Labels
<1>7. \A j \in Interface, id \in Id : Holds("readSystem", l, j, id) => Names(j, id)
  BY <1>1, <1>5 DEF Names, Holds
<1> DEFINE K == IF f = {} THEN {i} ELSE {}
<1>8. \A j \in Interface \ K : Resets(pc[p], local[p], j) => Resets("readSystem", l, j)
  BY <1>5 DEF Resets
<1>9. K \in SUBSET Interface
  BY <1>2
<1>10. Moves(p, K)
  BY <1>1, <1>5, <1>6, <1>7, <1>8 DEF Moves
<1>11. Leaves(p, K)
  BY <1>1, <1>4, UserKept DEF Leaves
<1>12. FilesKeep
  BY <1>1, FilesKept
<1> QED
  BY <1>9, <1>10, <1>11, <1>12 DEF Safe

LEMMA ReadSystemSafe ==
  ASSUME Types, NEW p \in Proc, ReadSystem(p)
  PROVE  Safe(p)
<1> DEFINE i == local[p].reset[1]
           f == local[p].found \cup Describe(System!Implementing(systemRows, i), "system")
           l == [local[p] EXCEPT !.found = f]
<1>1. /\ LocalOK("readSystem", local[p]) /\ local[p] \in LocalType /\ pc[p] = "readSystem"
      /\ Move(p, "choose", l) /\ UNCHANGED <<userDb, systemDb, resetLost>>
  BY LocalIs DEF ReadSystem, Move
<1>2. \A d \in f : d \in Descriptor /\ d.interface = i
  <2>1. \A d \in Describe(System!Implementing(systemRows, i), "system") :
          d \in Descriptor /\ d.interface = i
    BY DEF Describe, System!Implementing, Types, File!FileTypes, File!Row, Descriptor, Scope
  <2> QED
    BY <1>1, <2>1 DEF LocalOK
<1>3. local[p].found # {} => f # {}
  OBVIOUS
<1> HIDE DEF f
<1>4. /\ l \in LocalType /\ l.found = f /\ l.reset = local[p].reset /\ l.about = local[p].about
      /\ l.todo = local[p].todo /\ l.call = local[p].call
  BY <1>1, <1>2 DEF LocalType
<1> HIDE DEF l
<1>5. LocalOK("choose", l) /\ "choose" \in Labels
  BY <1>1, <1>2, <1>4 DEF LocalOK, InReset, Labels
<1>6. \A j \in Interface, id \in Id : Holds("choose", l, j, id) => Names(j, id)
  BY <1>1, <1>4 DEF Names, Holds
<1>7. \A j \in Interface : Resets(pc[p], local[p], j) => Resets("choose", l, j)
  BY <1>1, <1>3, <1>4 DEF Resets
<1>8. Moves(p, {})
  BY <1>1, <1>4, <1>5, <1>6, <1>7 DEF Moves
<1> QED
  BY <1>1, <1>8, QuietSafe

LEMMA NothingFoundSafe ==
  ASSUME Types, NEW p \in Proc, NothingFound(p)
  PROVE  Safe(p)
<1>1. \A i \in Interface \ {} : ~Resets(pc[p], local[p], i)
  BY DEF NothingFound, Resets
<1>2. Moves(p, {})
  BY <1>1, Ends DEF NothingFound, InReset
<1> QED
  BY <1>2, QuietSafe DEF NothingFound

LEMMA ResetToUserSafe ==
  ASSUME Types, NEW p \in Proc, ResetToUser(p)
  PROVE  Safe(p)
<1> DEFINE i == local[p].reset[1]
<1>1. /\ LocalOK("choose", local[p]) /\ local[p] \in LocalType /\ pc[p] = "choose"
      /\ EndReset(p, "NoError") /\ UNCHANGED systemDb
  BY LocalIs DEF ResetToUser
<1>2. local[p].reset \in Interface \X Id /\ local[p].reset # None
  BY <1>1 DEF LocalOK, LocalType, InReset
<1>3. \A j \in Interface \ {i} : ~Resets(pc[p], local[p], j)
  BY DEF Resets
<1>4. Moves(p, {i}) /\ {i} \in SUBSET Interface
  BY <1>1, <1>2, <1>3, Ends DEF InReset
<1>5. PICK d \in LatestDescriptors(local[p].found) :
        \/ SetUserDefault(d) /\ UNCHANGED resetLost
        \/ NoUserDefault(d) /\ resetLost' = TRUE
  BY DEF ResetToUser
<1>6. d \in Descriptor /\ d.interface = i
  <2>1. d \in local[p].found
    BY <1>5 DEF LatestDescriptors
  <2> QED
    BY <1>1, <2>1 DEF LocalOK
<1>7. CASE SetUserDefault(d) /\ UNCHANGED resetLost
  <2>1. /\ UserFile!FileTypes'
        /\ \A j \in Interface, id \in Id : UserFile!Named(j, id)' => UserFile!Named(j, id)
        /\ \A j \in Interface : UserFile!Bare(j)' => UserFile!Bare(j) /\ j # i
    BY <1>2, <1>6, <1>7, SameUserOperations, SameUserAssumption, UserFile!SetDefaultNames
       DEF Types, SetUserDefault
  <2>2. FilesKeep
    BY <1>1, <2>1, SystemKept DEF FilesKeep, FileTypesNext, Names
  <2>3. Leaves(p, {i})
    BY <1>7, <2>1 DEF Leaves
  <2> QED
    BY <1>4, <2>2, <2>3 DEF Safe
<1>8. CASE NoUserDefault(d) /\ resetLost' = TRUE
  <2>1. FilesKeep
    BY <1>1, <1>8, FilesKept DEF NoUserDefault
  <2>2. Leaves(p, {i})
    BY <1>8 DEF Leaves
  <2> QED
    BY <1>4, <2>1, <2>2 DEF Safe
<1> QED
  BY <1>5, <1>7, <1>8

\* The IDs getInterfaceID finds belong to the interface of the descriptor.
LEMMA SystemIdsNamed ==
  ASSUME Types, NEW d, NEW id \in SystemIds(d)
  PROVE  id \in Id /\ Names(d.interface, id)
<1>1. PICK r \in systemRows : r.interface = d.interface /\ r.id = id
  BY DEF SystemIds, System!IdsOf, System!Find
<1>2. id \in Id
  BY <1>1 DEF Types, File!FileTypes, File!Row
<1> QED
  BY <1>1, <1>2 DEF Names, File!Named

LEMMA ResetToSystemSafe ==
  ASSUME Types, NEW p \in Proc, ResetToSystem(p)
  PROVE  Safe(p)
<1> DEFINE i == local[p].reset[1]
<1>1. /\ LocalOK("choose", local[p]) /\ local[p] \in LocalType /\ pc[p] = "choose"
      /\ UNCHANGED <<userDb, systemDb>>
  BY LocalIs DEF ResetToSystem
<1>2. local[p].reset \in Interface \X Id /\ local[p].reset # None
  BY <1>1 DEF LocalOK, LocalType, InReset
<1>3. PICK d \in LatestDescriptors(local[p].found) :
        \/ resetLost' = TRUE /\ EndReset(p, "NoError")
        \/ /\ UNCHANGED resetLost
           /\ \E id \in SystemIds(d) : SetLocal(p, [local[p] EXCEPT !.found = {id}])
           /\ Goto(p, "setExternal")
  BY DEF ResetToSystem
<1>4. d \in Descriptor /\ d.interface = i
  <2>1. d \in local[p].found
    BY <1>3 DEF LatestDescriptors
  <2> QED
    BY <1>1, <2>1 DEF LocalOK
<1>5. CASE resetLost' = TRUE /\ EndReset(p, "NoError")
  <2>1. \A j \in Interface \ {i} : ~Resets(pc[p], local[p], j)
    BY DEF Resets
  <2>2. Moves(p, {i}) /\ {i} \in SUBSET Interface
    BY <1>1, <1>2, <1>5, <2>1, Ends DEF InReset
  <2>3. FilesKeep /\ Leaves(p, {i})
    BY <1>1, <1>5, FilesKept DEF Leaves
  <2> QED
    BY <2>2, <2>3 DEF Safe
<1>6. ASSUME NEW id \in SystemIds(d), Goto(p, "setExternal"), UNCHANGED resetLost,
             SetLocal(p, [local[p] EXCEPT !.found = {id}])
      PROVE  Safe(p)
  <2> DEFINE l == [local[p] EXCEPT !.found = {id}]
  <2>1. id \in Id /\ Names(i, id)
    BY <1>4, SystemIdsNamed
  <2>2. /\ l \in LocalType /\ l.found = {id} /\ l.reset = local[p].reset
        /\ l.about = local[p].about /\ l.todo = local[p].todo /\ l.call = local[p].call
    BY <1>1, <2>1 DEF LocalType
  <2>3. Move(p, "setExternal", l)
    BY <1>6 DEF Move
  <2> HIDE DEF l
  <2>4. LocalOK("setExternal", l) /\ "setExternal" \in Labels
    BY <1>1, <1>2, <2>1, <2>2 DEF LocalOK, InReset, Labels
  <2>5. \A j \in Interface, x \in Id : Holds("setExternal", l, j, x) => Names(j, x)
    <3>1. Target(l) = i
      BY <1>2, <2>2 DEF Target
    <3>2. \A j \in Interface, x \in Id :
            l.about = <<j, x>> \/ l.reset = <<j, x>> \/ <<j, x>> \in l.todo => Names(j, x)
      BY <2>2 DEF Names, Holds
    <3> QED
      BY <2>1, <2>2, <3>1, <3>2 DEF Holds
  <2>6. \A j \in Interface : Resets(pc[p], local[p], j) => Resets("setExternal", l, j)
    BY <2>2 DEF Resets
  <2>7. Moves(p, {})
    BY <2>2, <2>3, <2>4, <2>5, <2>6 DEF Moves
  <2> QED
    BY <1>1, <1>6, <2>7, QuietSafe
<1> QED
  BY <1>3, <1>5, <1>6

LEMMA SetExternalSafe ==
  ASSUME Types, NEW p \in Proc, SetExternal(p)
  PROVE  Safe(p)
<1> DEFINE i == Target(local[p])
<1>1. /\ LocalOK("setExternal", local[p]) /\ local[p] \in LocalType /\ pc[p] = "setExternal"
      /\ UNCHANGED <<systemDb, resetLost>>
  BY LocalIs DEF SetExternal
<1>2. i \in Interface
  BY <1>1 DEF LocalOK, LocalType, Target
<1>3. PICK id \in local[p].found :
        /\ User!SetExternalDefault(i, id)
        /\ IF Resetting(p) THEN EndReset(p, "NoError") ELSE Finish(p, "NoError")
  BY DEF SetExternal, Target, Resetting
<1>4. id \in Id /\ Names(i, id)
  BY <1>1, <1>2, <1>3 DEF LocalOK, Names, Holds
<1>5. /\ userRows' = userRows
      /\ \A j \in Interface : userDefaults'[j] = IF j = i THEN id ELSE userDefaults[j]
      /\ userDefaults' \in [Interface -> Id \cup {NoId}]
  BY <1>2, <1>3, <1>4 DEF User!SetExternalDefault, Types, UserFile!FileTypes
<1>6. \A j \in Interface \ {i} : ~Resets(pc[p], local[p], j)
  BY DEF Resets, Target
<1>7. Moves(p, {i})
  <2>1. CASE Resetting(p)
    BY <1>1, <1>3, <1>6, <2>1, Ends DEF InReset
  <2>2. CASE ~Resetting(p)
    BY <1>3, <1>6, <2>2, Returns DEF Finish
  <2> QED
    BY <2>1, <2>2
<1>8. FilesKeep
  <2>1. UserFile!FileTypes'
    BY <1>5 DEF Types, UserFile!FileTypes
  <2>2. \A j \in Interface, x \in Id : UserFile!Named(j, x)' => Names(j, x)
    BY <1>4, <1>5 DEF Names, UserFile!Named
  <2> QED
    BY <1>1, <2>1, <2>2, SystemKept DEF FilesKeep, FileTypesNext
<1>9. Leaves(p, {i})
  BY <1>1, <1>4, <1>5, Apart DEF Leaves, UserFile!Bare, UserFile!Implementing
<1> QED
  BY <1>2, <1>7, <1>8, <1>9 DEF Safe

LEMMA FindSystemIdSafe ==
  ASSUME Types, NEW p \in Proc, NEW d \in Descriptors, FindSystemId(p, d)
  PROVE  Safe(p)
<1>1. /\ LocalOK("run", local[p]) /\ local[p] \in LocalType /\ pc[p] = "run"
      /\ UNCHANGED <<userDb, systemDb, resetLost>>
  BY LocalIs DEF FindSystemId, Runs
<1>2. \A i \in Interface : ~Resets(pc[p], local[p], i)
  BY <1>1, NotResetting DEF InReset
<1>3. CASE Finish(p, "Error")
  BY <1>1, <1>2, <1>3, Returns, QuietSafe DEF Finish
<1>4. ASSUME NEW id \in SystemIds(d), Goto(p, "setExternal"),
             SetLocal(p, [local[p] EXCEPT !.about = <<d.interface, id>>, !.found = {id}])
      PROVE  Safe(p)
  <2> DEFINE l == [local[p] EXCEPT !.about = <<d.interface, id>>, !.found = {id}]
  <2>1. id \in Id /\ Names(d.interface, id) /\ d.interface \in Interface
    BY SystemIdsNamed, DescriptorsShape
  <2>2. /\ l \in LocalType /\ l.found = {id} /\ l.reset = local[p].reset
        /\ l.about = <<d.interface, id>> /\ l.todo = local[p].todo /\ l.call = local[p].call
    BY <1>1, <2>1 DEF LocalType
  <2>3. Move(p, "setExternal", l)
    BY <1>4 DEF Move
  <2> HIDE DEF l
  <2>4. l.reset = None /\ l.about # None
    BY <1>1, <2>1, <2>2, Apart DEF LocalOK, InReset
  <2>5. LocalOK("setExternal", l) /\ "setExternal" \in Labels
    BY <2>1, <2>2, <2>4 DEF LocalOK, InReset, Labels
  <2>6. \A j \in Interface, x \in Id : Holds("setExternal", l, j, x) => Names(j, x)
    <3>1. Target(l) = d.interface
      BY <2>2, <2>4 DEF Target
    <3>2. \A j \in Interface, x \in Id : <<j, x>> \in l.todo => Names(j, x)
      BY <2>2 DEF Names, Holds
    <3> QED
      BY <2>1, <2>2, <2>4, <3>1, <3>2, Apart DEF Holds
  <2>7. Moves(p, {})
    BY <1>2, <2>2, <2>3, <2>5, <2>6 DEF Moves
  <2> QED
    BY <1>1, <2>7, QuietSafe
<1> QED
  BY <1>3, <1>4 DEF FindSystemId

LEMMA ExternalDefaultSafe ==
  ASSUME Types, NEW p \in Proc, ExternalDefault(p)
  PROVE  Safe(p)
<1>1. /\ LocalOK("run", local[p]) /\ local[p] \in LocalType /\ pc[p] = "run"
      /\ local[p].call = "interfaceDefault" /\ local[p].about[2] # NoId
      /\ UNCHANGED <<userDb, systemDb, resetLost>>
  BY LocalIs DEF ExternalDefault, Runs
<1>2. \A i \in Interface : ~Resets(pc[p], local[p], i)
  BY <1>1, NotResetting DEF InReset
<1>3. CASE ReturnFound(p)
  BY <1>1, <1>2, <1>3, Returns, QuietSafe
<1>4. ASSUME Goto(p, "remove"), SetLocal(p, [local[p] EXCEPT !.reset = local[p].about])
      PROVE  Safe(p)
  <2> DEFINE l == [local[p] EXCEPT !.reset = local[p].about]
  <2>1. local[p].about \in Interface \X Id /\ local[p].about # None
    <3>1. local[p].about # None
      BY <1>1 DEF LocalOK
    <3>2. local[p].about \in Interface \X (Id \cup {NoId})
      BY <1>1, <3>1 DEF LocalType
    <3> QED
      BY <1>1, <3>1, <3>2
  <2>2. /\ l \in LocalType /\ l.found = local[p].found /\ l.reset = local[p].about
        /\ l.about = local[p].about /\ l.todo = local[p].todo /\ l.call = local[p].call
    BY <1>1, <2>1 DEF LocalType
  <2>3. Move(p, "remove", l)
    BY <1>4 DEF Move
  <2> HIDE DEF l
  <2>4. LocalOK("remove", l) /\ "remove" \in Labels
    BY <1>1, <2>1, <2>2 DEF LocalOK, InReset, Labels
  <2>5. \A j \in Interface, x \in Id : Holds("remove", l, j, x) => Names(j, x)
    BY <2>2 DEF Names, Holds
  <2>6. Moves(p, {})
    BY <1>2, <2>2, <2>3, <2>4, <2>5 DEF Moves
  <2> QED
    BY <1>1, <2>6, QuietSafe
<1> QED
  BY <1>3, <1>4 DEF ExternalDefault

LEMMA ExitSafe ==
  ASSUME Types, NEW p \in Proc, Exit(p)
  PROVE  Safe(p)
<1> DEFINE K == {i \in Interface : Resets(pc[p], local[p], i)}
<1>1. Return(p) /\ UNCHANGED <<userDb, systemDb>> /\ resetLost' = (resetLost \/ Resetting(p))
  BY DEF Exit
<1>2. \A i \in Interface \ K : ~Resets(pc[p], local[p], i)
  OBVIOUS
<1>3. \A i \in K : Resetting(p)
  BY DEF Resets, Resetting
<1>4. K \in SUBSET Interface
  OBVIOUS
<1> HIDE DEF K
<1>5. Moves(p, K)
  BY <1>1, <1>2, Returns
<1>6. FilesKeep /\ Leaves(p, K)
  BY <1>1, <1>3, FilesKept, UserKept DEF Leaves
<1> QED
  BY <1>4, <1>5, <1>6 DEF Safe

LEMMA StepSafe ==
  ASSUME Types, OneInterface, NEW p \in Proc, Step(p)
  PROVE  Safe(p)
<1>1. CASE \E meta \in MetaData : RegisterUser(p, meta) \/ RegisterSystem(p, meta)
  BY <1>1, RegisterUserSafe, RegisterSystemSafe
<1>2. CASE \E s \in Service : UnregisterUser(p, s) \/ UnregisterSystem(p, s)
  BY <1>2, UserOperationSafe, SystemOperationSafe
<1>3. CASE \E d \in Descriptors :
             SetInterfaceDefaultUser(p, d) \/ SetSystemDefault(p, d) \/ FindSystemId(p, d)
  BY <1>3, UserOperationSafe, SystemOperationSafe, FindSystemIdSafe
<1>4. CASE \/ \E i \in Interface : LocalDefault(p, i) \/ SystemDefault(p, i)
           \/ Refuse(p) \/ OpenFails(p) \/ GetInterfaces(p)
  BY <1>4, LookSafe
<1>5. CASE \/ \E i \in Interface : BeginInterfaceDefault(p, i)
           \/ BeginAtSystemScope(p) \/ BeginAtUserScope(p)
  BY <1>5, BeginSafe
<1>6. CASE \/ TakeFound(p) \/ OpenSystem(p) \/ RemoveExternal(p) \/ ReadUser(p) \/ ReadSystem(p)
           \/ NothingFound(p) \/ ResetToUser(p) \/ ResetToSystem(p) \/ SetExternal(p)
           \/ ExternalDefault(p) \/ Exit(p)
  BY <1>6, TakeFoundSafe, OpenSystemSafe, RemoveExternalSafe, ReadUserSafe, ReadSystemSafe,
     NothingFoundSafe, ResetToUserSafe, ResetToSystemSafe, SetExternalSafe, ExternalDefaultSafe,
     ExitSafe
<1> QED
  BY <1>1, <1>2, <1>3, <1>4, <1>5, <1>6 DEF Step

LEMMA UserStep == UserInv /\ [Next]_vars => UserInv'
<1> SUFFICES ASSUME UserInv, [Next]_vars PROVE UserInv'
  OBVIOUS
<1>1. CASE Next
  <2>1. PICK p \in Proc : Step(p)
    BY <1>1 DEF Next
  <2>2. PICK K \in SUBSET Interface : Moves(p, K) /\ (FilesKeep \/ FilesAdd) /\ Leaves(p, K)
    BY <2>1, StepSafe DEF UserInv, Safe
  <2>3. FileTypesNext
    BY <2>2 DEF FilesKeep, FilesAdd
  <2> QED
    BY <2>2, <2>3, TypesStep, NamesStep, ResetStep DEF UserInv
<1>2. CASE UNCHANGED vars
  <2>1. UNCHANGED <<userRows, userDefaults, systemRows, systemDefaults, pc, local, resetLost>>
    BY <1>2 DEF vars, userDb, systemDb
  <2>2. Types'
    BY <2>1 DEF UserInv, Types, UserFile!FileTypes, File!FileTypes
  <2>3. OneInterface'
    BY <2>1 DEF UserInv, OneInterface, Names, UserFile!Named, File!Named
  <2>4. ResetUnderway'
    BY <2>1 DEF UserInv, ResetUnderway, UserFile!Bare, UserFile!Implementing
  <2> QED
    BY <2>2, <2>3, <2>4 DEF UserInv
<1> QED
  BY <1>1, <1>2

LEMMA UserInit == Init => UserInv
<1> SUFFICES ASSUME Init PROVE UserInv
  OBVIOUS
<1>1. /\ userRows = {} /\ userDefaults = [i \in Interface |-> NoId]
      /\ systemRows = {} /\ systemDefaults = [i \in Interface |-> NoId]
      /\ pc = [p \in Proc |-> "idle"] /\ local = [p \in Proc |-> Locals(None, None)]
  BY DEF Init, User!Init, System!Init
<1>2. Types
  BY <1>1, Started DEF Types, UserFile!FileTypes, File!FileTypes, Labels
<1>3. OneInterface
  <2>1. \A i \in Interface, id \in Id : ~Names(i, id)
    BY <1>1, Started, Apart DEF Names, UserFile!Named, File!Named
  <2> QED
    BY <2>1 DEF OneInterface
<1>4. ResetUnderway
  BY <1>1 DEF ResetUnderway, UserFile!Bare, UserFile!Implementing
<1> QED
  BY <1>2, <1>3, <1>4 DEF UserInv

\* However the managers of any number of processes interleave, an interface that is
\* implemented in the user's database has a default, unless it is being reset right
\* now or a reset was lost: no reset ends without a default while there is something
\* to choose.
THEOREM UserDefaultsKept == Spec => []UserDefaultsComplete
<1>1. UserInv => UserDefaultsComplete
  BY DEF UserInv, ResetUnderway, UserDefaultsComplete, ResettingNow, Resetting, Resets,
         UserFile!Bare, UserFile!Implementing, User!Implementing
<1> QED
  BY <1>1, UserInit, UserStep, PTL DEF Spec
=============================================================================
