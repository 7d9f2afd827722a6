------------------------- MODULE ServiceDatabaseProofs -------------------------
(***************************************************************************)
(* Proofs about a database file, for any services, versions and IDs: the   *)
(* invariant is inductive once an ID is known to name one row.             *)
(***************************************************************************)
EXTENDS ServiceDatabase, FiniteSetTheorems, TLAPS

IInv == TypeOK /\ ImplementationsUnique /\ DefaultsComplete

\* What the rows of a new service look like.
LEMMA NewRowsShape ==
  ASSUME NEW meta \in MetaData, NEW ids \in [meta.interfaces -> Id],
         NEW r \in NewRows(meta, ids)
  PROVE  /\ r \in Row
         /\ r.location = meta.location /\ r.service = meta.service
         /\ <<r.interface, r.version>> \in meta.interfaces
         /\ r.id = ids[<<r.interface, r.version>>]
<1>1. meta \in [location : Location, service : Service,
                interfaces : SUBSET (Interface \X Version)]
  BY DatabaseAssumption
<1>2. PICK iv \in meta.interfaces :
        r = [id |-> ids[iv], location |-> meta.location, service |-> meta.service,
             interface |-> iv[1], version |-> iv[2]]
  BY DEF NewRows
<1>3. iv \in Interface \X Version /\ iv = <<iv[1], iv[2]>>
  BY <1>1, <1>2
<1>4. ids[iv] \in Id
  BY <1>2
<1> QED
  BY <1>1, <1>2, <1>3, <1>4 DEF Row

\* A service's metadata is a finite set of interfaces.
LEMMA NewRowsFinite ==
  ASSUME NEW meta \in MetaData, NEW ids
  PROVE  IsFiniteSet(NewRows(meta, ids))
<1>1. IsFiniteSet(meta.interfaces)
  BY DatabaseAssumption
<1> DEFINE F(iv) == [id |-> ids[iv], location |-> meta.location, service |-> meta.service,
                     interface |-> iv[1], version |-> iv[2]]
<1>2. IsFiniteSet({F(iv) : iv \in meta.interfaces})
  <2> DEFINE f == [iv \in meta.interfaces |-> F(iv)]
             T == {F(iv) : iv \in meta.interfaces}
  <2>1. f \in Surjection(meta.interfaces, T)
    BY DEF Surjection
  <2> HIDE DEF f, F, T
  <2>2. IsFiniteSet(T)
    BY <1>1, <2>1, FS_Surjection
  <2> QED
    BY <2>2 DEF T
<1> QED
  BY <1>2 DEF NewRows

LEMMA RegisterPreserves ==
  ASSUME IInv, NEW meta \in MetaData, NEW ids \in [meta.interfaces -> Id],
         RegisterService(meta, ids)
  PROVE  IInv'
<1> DEFINE new == NewRows(meta, ids)
<1> USE DEF IInv
<1>1. /\ Registrable(meta) /\ FreshIds(meta, ids)
      /\ rows' = rows \cup new
      /\ defaults' \in DefaultsWith(new)
  BY DEF RegisterService
<1>2. TypeOK'
  <2>1. new \subseteq Row
    BY NewRowsShape
  <2>2. IsFiniteSet(rows')
    BY <1>1, NewRowsFinite, FS_Union DEF TypeOK
  <2>3. defaults' \in [Interface -> Id \cup {NoId}]
    BY <1>1 DEF DefaultsWith
  <2> QED
    BY <1>1, <2>1, <2>2, <2>3 DEF TypeOK
<1>3. ImplementationsUnique'
  <2>1. ASSUME NEW q \in rows, NEW r \in new
        PROVE  /\ ~(q.service = r.service /\ q.interface = r.interface /\ q.version = r.version)
               /\ q.id # r.id /\ q.location # r.location
    <3>1. /\ r.location = meta.location /\ r.service = meta.service
          /\ <<r.interface, r.version>> \in meta.interfaces
          /\ r.id = ids[<<r.interface, r.version>>]
      BY NewRowsShape
    <3>2. Find(rows, meta.service, r.interface, r.version) = {}
      <4> DEFINE iv == <<r.interface, r.version>>
      <4>1. Find(rows, meta.service, iv[1], iv[2]) = {}
        BY <1>1, <3>1 DEF Registrable
      <4> QED
        BY <4>1
    <3>3. q.location # meta.location
      BY <1>1 DEF Registrable
    <3>4. ids[<<r.interface, r.version>>] \notin IdsOf(rows)
      BY <1>1, <3>1 DEF FreshIds
    <3> QED
      BY <3>1, <3>2, <3>3, <3>4 DEF Find, IdsOf
  <2>2. ASSUME NEW q \in new, NEW r \in new
        PROVE  /\ q.service = r.service
               /\ q.interface = r.interface /\ q.version = r.version => q = r
               /\ q.id = r.id => q = r
    <3>1. /\ q \in Row /\ r \in Row
          /\ q.location = r.location /\ q.service = r.service
          /\ q.id = ids[<<q.interface, q.version>>] /\ r.id = ids[<<r.interface, r.version>>]
          /\ <<q.interface, q.version>> \in meta.interfaces
          /\ <<r.interface, r.version>> \in meta.interfaces
      BY NewRowsShape
    <3>2. q.id = r.id => <<q.interface, q.version>> = <<r.interface, r.version>>
      BY <1>1, <3>1 DEF FreshIds
    <3>3. q.id = r.id => q.interface = r.interface /\ q.version = r.version
      BY <3>2
    <3> QED
      BY <3>1, <3>3 DEF Row
  <2> QED
    BY <1>1, <2>1, <2>2 DEF ImplementationsUnique
<1>4. DefaultsComplete'
  <2> SUFFICES ASSUME NEW i \in Interface
               PROVE  IF Implementing(rows', i) = {}
                      THEN defaults'[i] = NoId
                      ELSE defaults'[i] \in IdsOf(Implementing(rows', i))
    BY DEF DefaultsComplete
  <2>1. Implementing(rows', i) = Implementing(rows, i) \cup Implementing(new, i)
    BY <1>1 DEF Implementing
  <2>2. IF Implementing(rows, i) = {} THEN defaults[i] = NoId
        ELSE defaults[i] \in IdsOf(Implementing(rows, i))
    BY DEF DefaultsComplete
  <2>3. NoId \notin IdsOf(Implementing(rows, i))
    BY DatabaseAssumption DEF TypeOK, Row, IdsOf, Implementing
  <2>4. IF defaults[i] = NoId /\ Implementing(new, i) # {}
        THEN defaults'[i] \in IdsOf(Latest(Implementing(new, i)))
        ELSE defaults'[i] = defaults[i]
    BY <1>1 DEF DefaultsWith
  <2>5. IdsOf(Latest(Implementing(new, i))) \subseteq IdsOf(Implementing(new, i))
    BY DEF IdsOf, Latest
  <2> QED
    BY <2>1, <2>2, <2>3, <2>4, <2>5 DEF IdsOf
<1> QED
  BY <1>2, <1>3, <1>4

LEMMA UnregisterPreserves ==
  ASSUME IInv, NEW s \in Service, UnregisterService(s)
  PROVE  IInv'
<1> DEFINE lost == {r \in rows : r.service = s}
           left == rows \ lost
<1> USE DEF IInv
<1>1. rows' = left /\ defaults' \in DefaultsWithout(lost, left)
  BY DEF UnregisterService
<1>2. TypeOK'
  BY <1>1, FS_Difference DEF TypeOK, DefaultsWithout
<1>3. ImplementationsUnique'
  BY <1>1 DEF ImplementationsUnique
<1>4. DefaultsComplete'
  <2> SUFFICES ASSUME NEW i \in Interface
               PROVE  IF Implementing(left, i) = {}
                      THEN defaults'[i] = NoId
                      ELSE defaults'[i] \in IdsOf(Implementing(left, i))
    BY <1>1 DEF DefaultsComplete
  <2>1. IF defaults[i] \notin IdsOf(lost) THEN defaults'[i] = defaults[i]
        ELSE IF Implementing(left, i) = {} THEN defaults'[i] = NoId
        ELSE defaults'[i] \in IdsOf(Latest(Implementing(left, i)))
    BY <1>1 DEF DefaultsWithout
  <2>2. IF Implementing(rows, i) = {} THEN defaults[i] = NoId
        ELSE defaults[i] \in IdsOf(Implementing(rows, i))
    BY DEF DefaultsComplete
  <2>3. IdsOf(Latest(Implementing(left, i))) \subseteq IdsOf(Implementing(left, i))
    BY DEF IdsOf, Latest
  <2>4. IdsOf(Implementing(rows, i)) \subseteq IdsOf(lost) \cup IdsOf(Implementing(left, i))
    BY DEF IdsOf, Implementing
  <2>5. Implementing(left, i) # {} => Implementing(rows, i) # {}
    BY DEF Implementing
  <2>6. Implementing(left, i) = {} => IdsOf(Implementing(left, i)) = {}
    BY DEF IdsOf
  <2> HIDE DEF lost, left
  <2> QED
    BY <2>1, <2>2, <2>3, <2>4, <2>5, <2>6
<1> QED
  BY <1>2, <1>3, <1>4

LEMMA SetDefaultPreserves ==
  ASSUME IInv, NEW s \in Service, NEW i \in Interface, NEW v \in Version,
         SetInterfaceDefault(s, i, v)
  PROVE  IInv'
<1> USE DEF IInv
<1>1. PICK r \in rows : /\ r.interface = i
                        /\ defaults' = [defaults EXCEPT ![i] = r.id]
                        /\ rows' = rows
  BY DEF SetInterfaceDefault, Find
<1>2. r.id \in Id
  BY DEF TypeOK, Row
<1>3. TypeOK'
  BY <1>1, <1>2 DEF TypeOK
<1>4. ImplementationsUnique'
  BY <1>1 DEF ImplementationsUnique
<1>5. DefaultsComplete'
  <2>1. r \in Implementing(rows, i)
    BY <1>1 DEF Implementing
  <2>2. r.id \in IdsOf(Implementing(rows, i))
    BY <2>1 DEF IdsOf
  <2> SUFFICES ASSUME NEW j \in Interface
               PROVE  IF Implementing(rows, j) = {}
                      THEN defaults'[j] = NoId
                      ELSE defaults'[j] \in IdsOf(Implementing(rows, j))
    BY <1>1 DEF DefaultsComplete
  <2>3. defaults'[j] = IF j = i THEN r.id ELSE defaults[j]
    BY <1>1 DEF TypeOK
  <2> QED
    BY <2>1, <2>2, <2>3 DEF DefaultsComplete
<1> QED
  BY <1>3, <1>4, <1>5

-----------------------------------------------------------------------------
(***************************************************************************)
(* Which interface an ID belongs to, in a file that others may refer out   *)
(* of or set defaults in.                                                  *)
(***************************************************************************)
FileTypes == rows \subseteq Row /\ defaults \in [Interface -> Id \cup {NoId}]

Named(i, id) == (\E r \in rows : r.interface = i /\ r.id = id) \/ defaults[i] = id

\* An interface that is implemented has no default.
Bare(i) == Implementing(rows, i) # {} /\ defaults[i] = NoId

LEMMA RegisterNames ==
  ASSUME FileTypes, NEW meta \in MetaData, NEW ids \in [meta.interfaces -> Id],
         RegisterService(meta, ids)
  PROVE  /\ FileTypes'
         /\ \A i \in Interface, id \in Id :
              Named(i, id)' => Named(i, id) \/ \E iv \in meta.interfaces : iv[1] = i /\ ids[iv] = id
         /\ \A i \in Interface : Bare(i)' => Bare(i)
<1> DEFINE new == NewRows(meta, ids)
<1>1. rows' = rows \cup new /\ defaults' \in DefaultsWith(new)
  BY DEF RegisterService
<1>2. ASSUME NEW r \in new
      PROVE  r \in Row /\ \E iv \in meta.interfaces : iv[1] = r.interface /\ ids[iv] = r.id
  BY DatabaseAssumption DEF NewRows, Row
<1>3. FileTypes'
  BY <1>1, <1>2 DEF FileTypes, DefaultsWith
<1> HIDE DEF new
<1>4. ASSUME NEW i \in Interface, NEW id \in Id, Named(i, id)'
      PROVE  Named(i, id) \/ \E iv \in meta.interfaces : iv[1] = i /\ ids[iv] = id
  <2>1. CASE \E r \in rows' : r.interface = i /\ r.id = id
    BY <1>1, <1>2, <2>1 DEF Named
  <2>2. CASE defaults'[i] = id /\ defaults'[i] # defaults[i]
    <3>1. defaults'[i] \in IdsOf(Latest(Implementing(new, i)))
      BY <1>1, <2>2 DEF DefaultsWith
    <3>2. PICK r \in new : r.interface = i /\ r.id = id
      BY <2>2, <3>1 DEF IdsOf, Latest, Implementing
    <3> QED
      BY <1>2, <3>2
  <2> QED
    BY <1>4, <2>1, <2>2 DEF Named
<1>5. ASSUME NEW i \in Interface, Bare(i)'
      PROVE  Bare(i)
  <2>1. /\ IF defaults[i] = NoId /\ Implementing(new, i) # {}
           THEN defaults'[i] \in IdsOf(Latest(Implementing(new, i)))
           ELSE defaults'[i] = defaults[i]
        /\ defaults'[i] = NoId
    BY <1>1, <1>5 DEF DefaultsWith, Bare
  <2>2. NoId \notin IdsOf(Latest(Implementing(new, i)))
    BY <1>2, DatabaseAssumption DEF IdsOf, Latest, Implementing, Row
  <2>3. Implementing(new, i) = {} /\ defaults[i] = NoId
    BY <2>1, <2>2
  <2>4. Implementing(rows', i) # {}
    BY <1>5 DEF Bare
  <2> QED
    BY <1>1, <2>3, <2>4 DEF Bare, Implementing
<1> QED
  BY <1>3, <1>4, <1>5

LEMMA UnregisterNames ==
  ASSUME FileTypes, NEW s, UnregisterService(s)
  PROVE  /\ FileTypes'
         /\ \A i \in Interface, id \in Id : Named(i, id)' => Named(i, id)
         /\ \A i \in Interface : Bare(i)' => Bare(i)
<1> DEFINE lost == {r \in rows : r.service = s}
           left == rows \ lost
<1>1. rows' = left /\ defaults' \in DefaultsWithout(lost, left)
  BY DEF UnregisterService
<1>2. left \subseteq rows
  OBVIOUS
<1> HIDE DEF lost, left
<1>3. FileTypes'
  BY <1>1, <1>2 DEF FileTypes, DefaultsWithout
<1>4. \A i \in Interface :
        \/ defaults'[i] = defaults[i]
        \/ defaults'[i] = NoId /\ Implementing(left, i) = {}
        \/ \E r \in left : r.interface = i /\ r.id = defaults'[i]
  BY <1>1 DEF DefaultsWithout, IdsOf, Latest, Implementing
<1>5. NoId \notin Id /\ \A r \in left : r.id \in Id
  BY <1>2, DatabaseAssumption DEF FileTypes, Row
<1> QED
  BY <1>1, <1>2, <1>3, <1>4, <1>5 DEF Named, Bare, Implementing

LEMMA SetDefaultNames ==
  ASSUME FileTypes, NEW s, NEW i \in Interface, NEW v, SetInterfaceDefault(s, i, v)
  PROVE  /\ FileTypes'
         /\ \A j \in Interface, id \in Id : Named(j, id)' => Named(j, id)
         /\ \A j \in Interface : Bare(j)' => Bare(j) /\ j # i
<1>1. PICK r \in rows : r.interface = i /\ defaults' = [defaults EXCEPT ![i] = r.id]
                        /\ rows' = rows
  BY DEF SetInterfaceDefault, Find
<1>2. r.id \in Id /\ NoId \notin Id
  BY DatabaseAssumption DEF FileTypes, Row
<1>3. FileTypes'
  BY <1>1, <1>2 DEF FileTypes
<1>4. \A j \in Interface : defaults'[j] = IF j = i THEN r.id ELSE defaults[j]
  BY <1>1 DEF FileTypes
<1> QED
  BY <1>1, <1>2, <1>3, <1>4 DEF Named, Bare
-----------------------------------------------------------------------------
LEMMA InitEstablishes == Init => IInv
BY FS_EmptySet DEF Init, IInv, TypeOK, ImplementationsUnique, DefaultsComplete, Implementing

LEMMA StepPreserves == IInv /\ [Next]_databaseVars => IInv'
<1> SUFFICES ASSUME IInv, [Next]_databaseVars PROVE IInv'
  OBVIOUS
<1>1. CASE \E meta \in MetaData : \E ids \in [meta.interfaces -> Id] : RegisterService(meta, ids)
  BY <1>1, RegisterPreserves
<1>2. CASE \E s \in Service : UnregisterService(s)
  BY <1>2, UnregisterPreserves
<1>3. CASE \E s \in Service, i \in Interface, v \in Version : SetInterfaceDefault(s, i, v)
  BY <1>3, SetDefaultPreserves
<1>4. CASE UNCHANGED databaseVars
  BY <1>4 DEF IInv, TypeOK, ImplementationsUnique, DefaultsComplete, databaseVars
<1> QED
  BY <1>1, <1>2, <1>3, <1>4 DEF Next

LEMMA Invariance == Spec => []IInv
BY InitEstablishes, StepPreserves, PTL DEF Spec

\* The variables keep their types: no operation stores a malformed row.
THEOREM DatabaseTypes == Spec => []TypeOK
<1>1. IInv => TypeOK
  BY DEF IInv
<1> QED
  BY Invariance, <1>1, PTL

\* registerService never lets a service implement a version of an interface
\* twice, whatever is registered from wherever in whatever order.
THEOREM NoDuplicates == Spec => []ImplementationsUnique
<1>1. IInv => ImplementationsUnique
  BY DEF IInv
<1> QED
  BY Invariance, <1>1, PTL

\* registerService, unregisterService and setInterfaceDefault keep a default of
\* its own for exactly the interfaces that are implemented.
THEOREM DefaultsKept == Spec => []DefaultsComplete
<1>1. IInv => DefaultsComplete
  BY DEF IInv
<1> QED
  BY Invariance, <1>1, PTL
=============================================================================
