------------------------ MODULE ServiceFrameworkProofs ------------------------
(***************************************************************************)
(* Proofs about the parts of the service framework around its core, for    *)
(* any processes, services, methods and documents: each part has an        *)
(* inductive invariant, and the framework's properties follow from the one *)
(* of the part that is looked at.                                          *)
(***************************************************************************)
EXTENDS ServiceFramework, ServiceDatabaseProofs, SequenceTheorems
-----------------------------------------------------------------------------
(***************************************************************************)
(* The service side of the D-Bus backend: a shared object counts at least *)
(* the proxies that have it and the clients that have a record of it, and  *)
(* what a proxy of an earlier process had is not there any more.           *)
(***************************************************************************)
Has(p, id) ==
  \/ proxy[p] = "bound" /\ instance[p] = id
  \/ proxy[p] = "waiting" /\ id \in paths /\ [proxy |-> p, id |-> id] \in replies
Live(e) == {p \in BusProxy : entry[p] = e /\ \E id \in BusObj : Has(p, id)}
DBusCounted(e) == {c \in BusClient : clientList[e][c] # DBus!NoClient}

KnownIds ==
  /\ paths \subseteq created
  /\ \A e \in BusEntry : private[e] \subseteq created /\ shared[e].id \in created \cup {NoObj}
  /\ \A r \in replies : r.id \in created \cup {NoObj}
  /\ \A e \in BusEntry : DBus!Instances(e) \subseteq paths
SharedOrPrivate ==
  \A e \in BusEntry :
    /\ e \in GlobalEntry => private[e] = {}
    /\ e \notin GlobalEntry => shared[e].id = NoObj
    /\ shared[e].id = NoObj <=> shared[e].count = 0
Apart == \A e, f \in BusEntry : e # f => DBus!Instances(e) \cap DBus!Instances(f) = {}
RequestsFit ==
  \A c \in BusClient : \A i \in DOMAIN requests[c] :
    /\ OwnerOf[requests[c][i]] = c
    /\ proxy[requests[c][i]] \in {"waiting", "released"}
    /\ entry[requests[c][i]] \in BusEntry
    /\ \A r \in replies : r.proxy # requests[c][i]
    /\ \A j \in DOMAIN requests[c] : i # j => requests[c][i] # requests[c][j]
RepliesFit ==
  /\ \A r \in replies : proxy[r.proxy] # "none" /\ entry[r.proxy] \in BusEntry
  /\ \A r, s \in replies : r.proxy = s.proxy => r = s
BoundFits ==
  /\ ~up => \A p \in BusProxy : proxy[p] # "bound"
  /\ \A p \in BusProxy : proxy[p] \in {"bound", "fault"} =>
       instance[p] \in created /\ entry[p] \in BusEntry /\ (\A r \in replies : r.proxy # p)
FaultsGone ==
  up => \A p \in BusProxy, e \in BusEntry :
          proxy[p] = "fault" => instance[p] \notin DBus!Instances(e)
RecordsFit ==
  \A e \in BusEntry, c \in BusClient :
    clientList[e][c] # DBus!NoClient =>
      /\ clientList[e][c].id \in BusObj
      /\ e \in GlobalEntry => clientList[e][c].id = shared[e].id
Held ==
  \A p \in BusProxy, id \in BusObj : Has(p, id) =>
    entry[p] \in BusEntry /\ id \in DBus!Instances(entry[p])
AloneUnlessShared ==
  \A p, q \in BusProxy, id \in BusObj : Has(p, id) /\ Has(q, id) /\ p # q => entry[p] \in GlobalEntry
SharedCounts ==
  \A e \in BusEntry \cap GlobalEntry : Cardinality(DBusCounted(e)) <= shared[e].count
ProxiesCounted ==
  \A e \in BusEntry \cap GlobalEntry : Cardinality(Live(e)) <= shared[e].count
DBusInv ==
  /\ DBus!TypeOK /\ KnownIds /\ SharedOrPrivate /\ Apart /\ RequestsFit /\ RepliesFit /\ BoundFits
  /\ FaultsGone /\ RecordsFit /\ Held /\ AloneUnlessShared /\ SharedCounts /\ ProxiesCounted

LEMMA Smaller ==
  ASSUME NEW S, NEW T, IsFiniteSet(S), T \subseteq S
  PROVE  IsFiniteSet(T) /\ Cardinality(T) <= Cardinality(S)
         /\ Cardinality(T) \in Nat /\ Cardinality(S) \in Nat
  BY FS_Subset, FS_CardinalityType

LEMMA TableUpdated ==
  ASSUME NEW S, NEW A, NEW B, NEW f \in [A -> [B -> S]], NEW a \in A, NEW b \in B, NEW v \in S
  PROVE  /\ [f EXCEPT ![a][b] = v] \in [A -> [B -> S]]
         /\ [f EXCEPT ![a][b] = v][a][b] = v
         /\ \A x \in A, y \in B : x # a \/ y # b => [f EXCEPT ![a][b] = v][x][y] = f[x][y]
  OBVIOUS

LEMMA RowUpdated ==
  ASSUME NEW S, NEW A, NEW f \in [A -> S], NEW a \in A, NEW v \in S
  PROVE  /\ [f EXCEPT ![a] = v] \in [A -> S]
         /\ [f EXCEPT ![a] = v][a] = v
         /\ \A x \in A : x # a => [f EXCEPT ![a] = v][x] = f[x]
  OBVIOUS

LEMMA OneAtLeast ==
  ASSUME NEW S, IsFiniteSet(S), NEW x \in S
  PROVE  Cardinality(S) \in Nat /\ Cardinality(S) >= 1 /\ (Cardinality(S) <= 1 => S = {x})
  <1>1. IsFiniteSet({x}) /\ Cardinality({x}) = 1
    BY FS_Singleton
  <1>2. {x} \in SUBSET S
    OBVIOUS
  <1>3. Cardinality({x}) <= Cardinality(S) /\ (Cardinality(S) = Cardinality({x}) => S = {x})
    BY <1>2, FS_Subset
  <1>4. Cardinality(S) \in Nat
    BY FS_CardinalityType
  <1> QED
    BY <1>1, <1>3, <1>4

\* Whoever has a shared object is counted by it, and so is a client's record.
LEMMA Referred ==
  ASSUME DBusInv, NEW e \in BusEntry \cap GlobalEntry, NEW p \in Live(e)
  PROVE  /\ shared[e].count \in Nat /\ shared[e].count >= 1
         /\ shared[e].count = 1 => Live(e) = {p}
  <1>1. IsFiniteSet(Live(e))
    BY FS_Subset, DBusAssumption DEF Live
  <1>2. Cardinality(Live(e)) \in Nat /\ Cardinality(Live(e)) >= 1
        /\ (Cardinality(Live(e)) <= 1 => Live(e) = {p})
    BY <1>1, OneAtLeast
  <1>3. shared[e].count \in Nat
    BY DEF DBusInv, DBus!TypeOK
  <1>4. Cardinality(Live(e)) <= shared[e].count
    BY DEF DBusInv, ProxiesCounted
  <1> QED
    BY <1>2, <1>3, <1>4

LEMMA Recorded ==
  ASSUME DBusInv, NEW e \in BusEntry \cap GlobalEntry, NEW c \in BusClient,
         clientList[e][c] # DBus!NoClient
  PROVE  /\ shared[e].count \in Nat /\ shared[e].count >= 1
         /\ shared[e].count = 1 => DBusCounted(e) = {c}
         /\ clientList[e][c].id = shared[e].id
  <1>1. IsFiniteSet(DBusCounted(e)) /\ c \in DBusCounted(e)
    BY FS_Subset, DBusAssumption DEF DBusCounted
  <1>2. Cardinality(DBusCounted(e)) \in Nat /\ Cardinality(DBusCounted(e)) >= 1
        /\ (Cardinality(DBusCounted(e)) <= 1 => DBusCounted(e) = {c})
    BY <1>1, OneAtLeast
  <1>3. shared[e].count \in Nat
    BY DEF DBusInv, DBus!TypeOK
  <1>4. Cardinality(DBusCounted(e)) <= shared[e].count /\ clientList[e][c].id = shared[e].id
    BY DEF DBusInv, SharedCounts, RecordsFit
  <1> QED
    BY <1>2, <1>3, <1>4

LEMMA BoundIsLive ==
  ASSUME DBusInv, NEW p \in BusProxy, proxy[p] = "bound"
  PROVE  /\ entry[p] \in BusEntry /\ instance[p] \in BusObj
         /\ Has(p, instance[p]) /\ instance[p] \in DBus!Instances(entry[p])
         /\ p \in Live(entry[p])
  <1>1. instance[p] \in BusObj /\ Has(p, instance[p])
    BY DEF DBusInv, BoundFits, Has, DBus!TypeOK
  <1> QED
    BY <1>1 DEF DBusInv, Held, Live

\* What is destroyed: an instance that is there only with a proxy that has it, and
\* otherwise one that is in no record that counts.
LEMMA LastReleased ==
  ASSUME DBusInv, up, NEW p \in BusProxy, NEW e \in BusEntry, NEW c \in BusClient,
         proxy[p] \in {"bound", "fault"}, entry[p] = e,
         DBus!LastOfClient(clientList[e][c], instance[p])
  PROVE  /\ instance[p] \in BusObj /\ clientList[e][c] # DBus!NoClient
         /\ clientList[e][c].id = instance[p]
         /\ proxy[p] = "fault" => \A f \in BusEntry : instance[p] \notin DBus!Instances(f)
         /\ e \in GlobalEntry => /\ proxy[p] = "bound" /\ shared[e].id = instance[p]
                                 /\ shared[e].count \in Nat /\ shared[e].count >= 1
                                 /\ shared[e].count = 1 => DBusCounted(e) = {c}
                                 /\ shared[e].count = 1 => Live(e) = {p}
  <1>1. clientList[e][c].ref = 1 /\ clientList[e][c].id = instance[p]
    BY DEF DBus!LastOfClient
  <1>2. clientList[e][c] # DBus!NoClient
    BY <1>1 DEF DBus!NoClient
  <1>3. instance[p] \in BusObj
    BY <1>1, <1>2 DEF DBusInv, RecordsFit
  <1>4. proxy[p] = "fault" => \A f \in BusEntry : instance[p] \notin DBus!Instances(f)
    BY DEF DBusInv, FaultsGone
  <1>5. ASSUME e \in GlobalEntry
        PROVE  /\ proxy[p] = "bound" /\ shared[e].id = instance[p]
               /\ shared[e].count \in Nat /\ shared[e].count >= 1
               /\ shared[e].count = 1 => DBusCounted(e) = {c}
               /\ shared[e].count = 1 => Live(e) = {p}
    <2>1. /\ shared[e].count \in Nat /\ shared[e].count >= 1
          /\ shared[e].count = 1 => DBusCounted(e) = {c}
          /\ shared[e].id = instance[p]
      BY <1>1, <1>2, <1>5, Recorded
    <2>2. instance[p] \in DBus!Instances(e)
      BY <1>3, <2>1, DBusAssumption DEF DBus!Instances
    <2>3. proxy[p] = "bound"
      BY <1>4, <2>2
    <2>4. p \in Live(e)
      BY <2>3, BoundIsLive
    <2>5. shared[e].count = 1 => Live(e) = {p}
      BY <1>5, <2>4, Referred
    <2> QED
      BY <2>1, <2>3, <2>5
  <1> QED
    BY <1>1, <1>2, <1>3, <1>4, <1>5

LEMMA HeadAsked ==
  ASSUME DBusInv, NEW p \in BusProxy, DBus!Asked(p)
  PROVE  /\ OwnerOf[p] \in BusClient /\ 1 \in DOMAIN requests[OwnerOf[p]] /\ requests[OwnerOf[p]][1] = p
         /\ entry[p] \in BusEntry /\ proxy[p] \in {"waiting", "released"}
         /\ \A r \in replies : r.proxy # p
  <1>1. OwnerOf[p] \in BusClient
    BY DBusAssumption
  <1>2. requests[OwnerOf[p]] \in Seq(BusProxy)
    BY <1>1 DEF DBusInv, DBus!TypeOK
  <1>3. 1 \in DOMAIN requests[OwnerOf[p]] /\ requests[OwnerOf[p]][1] = p
    BY <1>2 DEF DBus!Asked
  <1> QED
    BY <1>1, <1>3 DEF DBusInv, RequestsFit

Record == [id : BusObj \cup {NoObj}, ref : Int]
LEMMA DBusTypes ==
  ASSUME DBusInv, DBus!Next PROVE DBus!TypeOK'
  <1> USE DEF DBusInv
  <1>1. ASSUME NEW p \in BusProxy, NEW e \in BusEntry, NEW verdict \in BOOLEAN, DBus!ProcessIncoming(p, e, verdict)
        PROVE  DBus!TypeOK'
    <2>1. up' \in BOOLEAN
      BY <1>1 DEF DBus!ProcessIncoming
    <2>2. accept' \in [BusEntry -> BOOLEAN]
      BY <1>1 DEF DBus!ProcessIncoming, DBus!Accepted, DBus!TypeOK
    <2>3. requests' \in [BusClient -> Seq(BusProxy)]
      <3>1. OwnerOf[p] \in BusClient
        BY DBusAssumption
      <3>2. [requests EXCEPT ![OwnerOf[p]] = Append(@, p)] \in [BusClient -> Seq(BusProxy)]
        BY <3>1 DEF DBus!TypeOK
      <3> QED
        BY <1>1, <3>2 DEF DBus!ProcessIncoming, DBus!TypeOK
    <2>4. proxy' \in [BusProxy -> DBus!ProxyStates]
      BY <1>1 DEF DBus!ProcessIncoming, DBus!TypeOK, DBus!ProxyStates
    <2> QED
      BY <1>1, <2>1, <2>2, <2>3, <2>4 DEF DBus!ProcessIncoming, DBus!TypeOK, DBus!manager
  <1>2. CASE DBus!Autostart
    <2>1. PICK last \in BusEntry : DBus!Fresh(last)
      BY <1>2 DEF DBus!Autostart
    <2> QED
      BY <1>2, <2>1 DEF DBus!Autostart, DBus!Fresh, DBus!TypeOK, DBus!NoClient
  <1>3. ASSUME NEW p \in BusProxy, DBus!Asked(p) PROVE requests' \in [BusClient -> Seq(BusProxy)] /\ OwnerOf[p] \in BusClient
    <2>1. OwnerOf[p] \in BusClient
      BY DBusAssumption
    <2>2. Tail(requests[OwnerOf[p]]) \in Seq(BusProxy)
      BY <1>3, <2>1 DEF DBus!Asked, DBus!TypeOK
    <2> QED
      BY <1>3, <2>1, <2>2 DEF DBus!Asked, DBus!TypeOK
  <1>4. ASSUME NEW p \in BusProxy, NEW id \in BusObj \cup {NoObj}, DBus!Broadcast(p, id)
        PROVE  replies' \subseteq [proxy : BusProxy, id : BusObj \cup {NoObj}]
    BY <1>4 DEF DBus!Broadcast, DBus!TypeOK
  <1>5. ASSUME NEW p \in BusProxy, DBus!ObjectRefused(p) PROVE DBus!TypeOK'
    BY <1>3, <1>4, <1>5 DEF DBus!ObjectRefused, DBus!TypeOK, DBus!service, DBus!manager
  <1>11. ASSUME NEW p \in BusProxy, DBus!ObjectRejected(p) PROVE DBus!TypeOK'
    <2>1. DBus!Asked(p) /\ DBus!Broadcast(p, NoObj)
      BY <1>11 DEF DBus!ObjectRejected
    <2>2. proxy' \in [BusProxy -> DBus!ProxyStates] /\ up' \in BOOLEAN
      BY <1>11 DEF DBus!ObjectRejected, DBus!TypeOK, DBus!ProxyStates
    <2>3. created' \subseteq BusObj
      BY <1>11 DEF DBus!ObjectRejected, DBus!TypeOK
    <2> QED
      BY <1>3, <1>4, <1>11, <2>1, <2>2, <2>3 DEF DBus!ObjectRejected, DBus!TypeOK
  <1>6. ASSUME NEW p \in BusProxy, DBus!ObjectGranted(p) PROVE DBus!TypeOK'
    <2>1. PICK id \in BusObj :
            /\ DBus!Asked(p)
            /\ DBus!Grant(entry[p], id)
            /\ paths' = paths \cup {id}
            /\ clientList' = [clientList EXCEPT ![entry[p]][OwnerOf[p]] = DBus!Joined(@, id)]
            /\ DBus!Broadcast(p, id)
            /\ UNCHANGED <<up, session, accept, alive, proxy, entry, instance>>
      BY <1>6 DEF DBus!ObjectGranted
    <2>2. clientList' \in [BusEntry -> [BusClient -> [id : BusObj \cup {NoObj}, ref : Int]]]
      <3>1. ASSUME NEW l \in Record
            PROVE  DBus!Joined(l, id) \in Record
        BY DEF DBus!Joined, Record
      <3>2. entry[p] \in BusEntry /\ OwnerOf[p] \in BusClient /\ clientList \in [BusEntry -> [BusClient -> Record]]
        BY <2>1, HeadAsked DEF DBus!TypeOK, Record
      <3>3. DBus!Joined(clientList[entry[p]][OwnerOf[p]], id) \in Record
        BY <3>1, <3>2
      <3>4. clientList' \in [BusEntry -> [BusClient -> Record]]
        BY <2>1, <3>2, <3>3, TableUpdated
      <3> QED
        BY <3>4 DEF Record
    <2> DEFINE e == entry[p]
    <2>5. e \in BusEntry
      BY <2>1, HeadAsked
    <2>6. DBus!Grant(e, id)
      BY <2>1
    <2> HIDE DEF e
    <2>7. /\ shared \in [BusEntry -> [id : BusObj \cup {NoObj}, count : Nat]]
          /\ private \in [BusEntry -> SUBSET BusObj]
          /\ private[e] \cup {id} \in SUBSET BusObj /\ created \subseteq BusObj
          /\ [id |-> id, count |-> 1] \in [id : BusObj \cup {NoObj}, count : Nat]
          /\ [shared[e] EXCEPT !.count = @ + 1] \in [id : BusObj \cup {NoObj}, count : Nat]
      <3>1. /\ shared \in [BusEntry -> [id : BusObj \cup {NoObj}, count : Nat]]
            /\ private \in [BusEntry -> SUBSET BusObj] /\ created \subseteq BusObj
        BY DEF DBus!TypeOK
      <3>2. private[e] \cup {id} \in SUBSET BusObj
        BY <2>5, <3>1
      <3>3. shared[e] \in [id : BusObj \cup {NoObj}, count : Nat]
        BY <2>5, <3>1
      <3>4. shared[e].count + 1 \in Nat
        BY <3>3
      <3> QED
        BY <3>1, <3>2, <3>3, <3>4
    <2>8. \/ shared' = shared
          \/ shared' = [shared EXCEPT ![e] = [id |-> id, count |-> 1]]
          \/ shared' = [shared EXCEPT ![e] = [shared[e] EXCEPT !.count = @ + 1]]
      BY <2>5, <2>6, <2>7 DEF DBus!Grant
    <2>3. shared' \in [BusEntry -> [id : BusObj \cup {NoObj}, count : Nat]]
      BY <2>5, <2>7, <2>8, RowUpdated
    <2>4. private' \in [BusEntry -> SUBSET BusObj] /\ created' \subseteq BusObj
      <3>1. private' = private \/ private' = [private EXCEPT ![e] = private[e] \cup {id}]
        BY <2>6 DEF DBus!Grant
      <3>2. created' \subseteq created \cup {id}
        BY <2>6 DEF DBus!Grant
      <3> QED
        BY <2>5, <2>7, <3>1, <3>2, RowUpdated
    <2> QED
      BY <1>3, <1>4, <2>1, <2>2, <2>3, <2>4 DEF DBus!TypeOK
  <1>7. ASSUME NEW r \in replies, DBus!ReadReply(r) PROVE DBus!TypeOK'
    <2>1. r \in [proxy : BusProxy, id : BusObj \cup {NoObj}]
      BY DEF DBus!TypeOK
    <2>2. proxy' \in [BusProxy -> DBus!ProxyStates] /\ instance' \in [BusProxy -> BusObj \cup {NoObj}]
      BY <1>7, <2>1 DEF DBus!ReadReply, DBus!TypeOK, DBus!ProxyStates
    <2> QED
      BY <1>7, <2>2 DEF DBus!ReadReply, DBus!TypeOK, DBus!service, DBus!manager
  <1>8. ASSUME NEW p \in BusProxy, DBus!DestroyProxy(p) PROVE DBus!TypeOK'
    <2>1. proxy' \in [BusProxy -> DBus!ProxyStates]
      BY <1>8 DEF DBus!DestroyProxy, DBus!TypeOK, DBus!ProxyStates
    <2>0. CASE ~up
      BY <1>8, <2>0, <2>1 DEF DBus!DestroyProxy, DBus!TypeOK
    <2> DEFINE e == entry[p]
               c == OwnerOf[p]
               id == instance[p]
               l == clientList[e][c]
    <2>2. up => DBus!Disconnected(e, c, id)
      BY <1>8 DEF DBus!DestroyProxy
    <2>6. /\ e \in BusEntry /\ c \in BusClient /\ id \in BusObj \cup {NoObj}
          /\ up /\ DBus!LastOfClient(l, id) /\ e \in GlobalEntry => shared[e].count >= 1
      <3>1. e \in BusEntry /\ c \in BusClient /\ id \in BusObj \cup {NoObj}
        BY <1>8, DBusAssumption DEF DBus!DestroyProxy, BoundFits, DBus!TypeOK
      <3>2. up /\ DBus!LastOfClient(l, id) /\ e \in GlobalEntry => shared[e].count >= 1
        BY <1>8, <3>1, LastReleased DEF DBus!DestroyProxy
      <3> QED
        BY <3>1, <3>2
    <2> HIDE DEF e, c, id
    <2>3. up => clientList' \in [BusEntry -> [BusClient -> Record]]
      <3>1. clientList \in [BusEntry -> [BusClient -> Record]] /\ l \in Record /\ DBus!NoClient \in Record
        BY <2>6 DEF DBus!TypeOK, Record, DBus!NoClient
      <3> DEFINE w == IF l = DBus!NoClient THEN l ELSE [l EXCEPT !.ref = @ - 1]
      <3>2. w \in Record
        <4>1. l \in [id : BusObj \cup {NoObj}, ref : Int] /\ l.ref \in Int /\ l.ref - 1 \in Int
          BY <3>1 DEF Record
        <4> HIDE DEF l
        <4> QED
          BY <3>1, <4>1 DEF Record
      <3>3. up => \/ clientList' = [clientList EXCEPT ![e][c] = DBus!NoClient]
                  \/ clientList' = [clientList EXCEPT ![e][c] = w]
        BY <2>2 DEF DBus!Disconnected
      <3> HIDE DEF l, w
      <3> QED
        BY <2>6, <3>1, <3>2, <3>3, TableUpdated
    <2>7. CASE up /\ ~DBus!LastOfClient(l, id)
      BY <1>8, <2>1, <2>2, <2>3, <2>7 DEF DBus!DestroyProxy, DBus!Disconnected, DBus!TypeOK, Record
    <2>8. CASE up /\ DBus!LastOfClient(l, id)
      <3>1. DBus!RemoveInstance(e, id)
        BY <2>2, <2>8 DEF DBus!Disconnected, DBus!LastOfClient
      <3>2. shared[e] \in [id : BusObj \cup {NoObj}, count : Nat] /\ private[e] \in SUBSET BusObj
        BY <2>6 DEF DBus!TypeOK
      <3> DEFINE less == IF shared[e].count = 1 THEN [id |-> NoObj, count |-> 0]
                         ELSE [id |-> shared[e].id, count |-> shared[e].count - 1]
      <3>3. shared' = shared \/ (e \in GlobalEntry /\ shared' = [shared EXCEPT ![e] = less])
        <4>1. CASE e \in GlobalEntry
          BY <3>1, <4>1 DEF DBus!RemoveInstance
        <4>2. CASE e \notin GlobalEntry
          BY <3>1, <4>2 DEF DBus!RemoveInstance
        <4> QED
          BY <4>1, <4>2
      <3>4. private' = private \/ private' = [private EXCEPT ![e] = private[e] \ {id}]
        BY <3>1 DEF DBus!RemoveInstance
      <3>5. up' \in BOOLEAN /\ paths' \subseteq BusObj
        BY <3>1 DEF DBus!RemoveInstance, DBus!TypeOK
      <3>6. e \in GlobalEntry => less \in [id : BusObj \cup {NoObj}, count : Nat]
        <4>1. e \in GlobalEntry => shared[e].count - 1 \in Nat
          BY <2>6, <2>8, <3>2
        <4> QED
          BY <3>2, <4>1
      <3> HIDE DEF less
      <3>7. shared' \in [BusEntry -> [id : BusObj \cup {NoObj}, count : Nat]]
        <4>1. shared \in [BusEntry -> [id : BusObj \cup {NoObj}, count : Nat]]
          BY DEF DBus!TypeOK
        <4> QED
          BY <2>6, <3>3, <3>6, <4>1, RowUpdated
      <3>8. private' \in [BusEntry -> SUBSET BusObj]
        <4>1. private \in [BusEntry -> SUBSET BusObj] /\ private[e] \ {id} \in SUBSET BusObj
          BY <2>6 DEF DBus!TypeOK
        <4> QED
          BY <2>6, <3>4, <4>1, RowUpdated
      <3> QED
        BY <1>8, <2>1, <2>3, <2>8, <3>5, <3>7, <3>8 DEF DBus!DestroyProxy, DBus!TypeOK, Record
    <2> QED
      BY <2>0, <2>7, <2>8
  <1>9. ASSUME NEW c \in BusClient, DBus!ClientDies(c) PROVE DBus!TypeOK'
    BY <1>9 DEF DBus!ClientDies, DBus!TypeOK, DBus!service, DBus!manager, DBus!ProxyStates
  <1>10. CASE DBus!ServiceDies
    BY <1>10 DEF DBus!ServiceDies, DBus!Abandon, DBus!TypeOK, DBus!manager, DBus!ProxyStates
  <1> QED
    BY <1>1, <1>2, <1>5, <1>6, <1>7, <1>8, <1>9, <1>10, <1>11 DEF DBus!Next

LEMMA Shrinking ==
  ASSUME DBusInv, DBus!TypeOK', RequestsFit', RepliesFit', BoundFits', FaultsGone',
         UNCHANGED <<clientList, shared, private, paths>>, created \subseteq created',
         \A r \in replies' : r.id \in created' \cup {NoObj},
         \A p \in BusProxy, id \in BusObj : Has(p, id)' => Has(p, id) /\ entry'[p] = entry[p]
  PROVE  DBusInv'
  <1>1. KnownIds' /\ SharedOrPrivate' /\ Apart' /\ SharedCounts' /\ RecordsFit'
    <2>1. KnownIds'
      BY DEF DBusInv, KnownIds, DBus!Instances
    <2>2. SharedOrPrivate' /\ Apart' /\ SharedCounts' /\ RecordsFit'
      BY DEF DBusInv, SharedOrPrivate, Apart, SharedCounts, DBusCounted, RecordsFit, DBus!Instances
    <2> QED
      BY <2>1, <2>2
  <1>2. Held'
    BY DEF DBusInv, Held, DBus!Instances
  <1>3. AloneUnlessShared'
    BY DEF DBusInv, AloneUnlessShared
  <1>4. ProxiesCounted'
    <2>1. ASSUME NEW e \in BusEntry \cap GlobalEntry
          PROVE  Cardinality(Live(e)') <= shared'[e].count
      <3>1. Live(e)' \subseteq Live(e)
        BY DEF Live
      <3>2. IsFiniteSet(Live(e))
        BY FS_Subset, DBusAssumption DEF Live
      <3>3. Cardinality(Live(e)') <= Cardinality(Live(e)) /\ Cardinality(Live(e)') \in Nat
            /\ Cardinality(Live(e)) \in Nat
        BY <3>1, <3>2, Smaller
      <3>4. Cardinality(Live(e)) <= shared[e].count /\ shared' = shared
        BY DEF DBusInv, ProxiesCounted
      <3>5. shared[e].count \in Nat
        BY DEF DBusInv, DBus!TypeOK
      <3> QED
        BY <3>3, <3>4, <3>5
    <2> QED
      BY <2>1 DEF ProxiesCounted
  <1> QED
    BY <1>1, <1>2, <1>3, <1>4 DEF DBusInv

\* What dies or is not heard of leaves the faults gone.
LEMMA StillGone ==
  ASSUME DBusInv, UNCHANGED <<shared, private>>,
         up' => /\ up
                /\ \A p \in BusProxy : proxy'[p] = "fault" =>
                     \/ proxy[p] = "fault" /\ instance'[p] = instance[p]
                     \/ instance'[p] \notin paths
  PROVE  FaultsGone'
  <1>1. \A e \in BusEntry : DBus!Instances(e)' = DBus!Instances(e) /\ DBus!Instances(e) \subseteq paths
    BY DEF DBus!Instances, DBusInv, KnownIds
  <1> QED
    BY <1>1 DEF DBusInv, FaultsGone

LEMMA DBusAskPreserves ==
  ASSUME DBusInv, NEW p \in BusProxy, NEW e \in BusEntry, NEW verdict \in BOOLEAN,
         DBus!ProcessIncoming(p, e, verdict)
  PROVE  DBusInv'
  <1>1. DBus!TypeOK /\ DBus!TypeOK'
    <2>1. DBus!Next
      BY DEF DBus!Next
    <2> QED
      BY <2>1, DBusTypes DEF DBusInv
  <1>2. /\ proxy[p] = "none" /\ OwnerOf[p] \in BusClient
        /\ UNCHANGED <<clientList, DBus!manager, paths, replies, instance>>
        /\ requests' = requests \/ (/\ requests' = [requests EXCEPT ![OwnerOf[p]] = Append(@, p)]
                                    /\ proxy'[p] = "waiting")
        /\ entry' = [entry EXCEPT ![p] = e]
    <2>1. /\ proxy[p] = "none" /\ OwnerOf[p] \in BusClient
          /\ UNCHANGED <<clientList, DBus!manager, paths, replies, instance>>
          /\ entry' = [entry EXCEPT ![p] = e]
      BY DBusAssumption DEF DBus!ProcessIncoming
    <2>2. requests' = requests \/ (/\ requests' = [requests EXCEPT ![OwnerOf[p]] = Append(@, p)]
                                   /\ proxy'[p] = "waiting")
      <3>1. CASE DBus!Accepted(verdict, session)[e]
        BY <1>1, <3>1 DEF DBus!ProcessIncoming, DBus!TypeOK
      <3>2. CASE ~DBus!Accepted(verdict, session)[e]
        BY <3>2 DEF DBus!ProcessIncoming
      <3> QED
        BY <3>1, <3>2
    <2> QED
      BY <2>1, <2>2
  <1>3. /\ proxy'[p] \in {"waiting", "refused"}
        /\ entry'[p] = e
        /\ \A q \in BusProxy : q # p => /\ proxy'[q] = proxy[q] \/ (proxy[q] = "bound" /\ proxy'[q] = "fault")
                                        /\ entry'[q] = entry[q]
        /\ ~up' => \A q \in BusProxy : proxy'[q] # "bound"
    <2>1. entry'[p] = e /\ \A q \in BusProxy : q # p => entry'[q] = entry[q]
      BY <1>1, <1>2 DEF DBus!TypeOK
    <2>2. ~up' => \A q \in BusProxy : proxy'[q] # "bound"
      BY DEF DBus!ProcessIncoming
    <2>3. proxy'[p] \in {"waiting", "refused"}
      BY <1>1 DEF DBus!ProcessIncoming, DBus!TypeOK
    <2>4. \A q \in BusProxy : q # p => proxy'[q] = proxy[q] \/ (proxy[q] = "bound" /\ proxy'[q] = "fault")
      BY <1>1 DEF DBus!ProcessIncoming, DBus!TypeOK
    <2> QED
      BY <2>1, <2>2, <2>3, <2>4
  <1>4. \A r \in replies : r.proxy # p
    BY <1>2 DEF DBusInv, RepliesFit
  <1>5. \A r \in replies : r.proxy \in BusProxy /\ r = [proxy |-> r.proxy, id |-> r.id]
    BY <1>1 DEF DBus!TypeOK
  <1>6. RequestsFit'
    <2>1. ASSUME NEW c \in BusClient
          PROVE  /\ requests[c] \in Seq(BusProxy)
                 /\ \A i \in DOMAIN requests[c] :
                      /\ requests[c][i] # p
                      /\ OwnerOf[requests[c][i]] = c
                      /\ proxy'[requests[c][i]] \in {"waiting", "released"}
                      /\ entry'[requests[c][i]] \in BusEntry
                      /\ \A r \in replies : r.proxy # requests[c][i]
                      /\ \A j \in DOMAIN requests[c] : i # j => requests[c][i] # requests[c][j]
      <3>1. requests[c] \in Seq(BusProxy)
        BY <1>1 DEF DBus!TypeOK
      <3>2. ASSUME NEW i \in DOMAIN requests[c]
            PROVE  requests[c][i] \in BusProxy /\ requests[c][i] # p
                   /\ proxy'[requests[c][i]] \in {"waiting", "released"}
                   /\ entry'[requests[c][i]] \in BusEntry
        BY <1>2, <1>3, <3>1 DEF DBusInv, RequestsFit
      <3> QED
        BY <3>1, <3>2 DEF DBusInv, RequestsFit
    <2>2. CASE requests' = requests
      BY <1>2, <2>1, <2>2 DEF RequestsFit
    <2>3. CASE /\ requests' = [requests EXCEPT ![OwnerOf[p]] = Append(@, p)]
               /\ proxy'[p] = "waiting"
      <3>1. ASSUME NEW c \in BusClient, NEW i \in DOMAIN requests'[c]
            PROVE  /\ OwnerOf[requests'[c][i]] = c
                   /\ proxy'[requests'[c][i]] \in {"waiting", "released"}
                   /\ entry'[requests'[c][i]] \in BusEntry
                   /\ \A r \in replies' : r.proxy # requests'[c][i]
                   /\ \A j \in DOMAIN requests'[c] : i # j => requests'[c][i] # requests'[c][j]
        <4>1. CASE c # OwnerOf[p]
          <5>1. requests'[c] = requests[c]
            BY <1>1, <2>3, <4>1 DEF DBus!TypeOK
          <5> QED
            BY <1>2, <2>1, <5>1
        <4>2. CASE c = OwnerOf[p]
          <5>1. requests'[c] = Append(requests[c], p)
            BY <1>1, <2>3, <4>2 DEF DBus!TypeOK
          <5>2. /\ DOMAIN requests'[c] = DOMAIN requests[c] \cup {Len(requests[c]) + 1}
                /\ requests'[c][Len(requests[c]) + 1] = p
                /\ \A j \in DOMAIN requests[c] : requests'[c][j] = requests[c][j]
            BY <2>1, <5>1
          <5>3. CASE i \in DOMAIN requests[c]
            BY <1>2, <2>1, <5>2, <5>3
          <5>4. CASE i = Len(requests[c]) + 1
            BY <1>2, <1>3, <1>4, <2>1, <2>3, <4>2, <5>2, <5>4
          <5> QED
            BY <5>2, <5>3, <5>4
        <4> QED
          BY <4>1, <4>2
      <3> QED
        BY <3>1 DEF RequestsFit
    <2> QED
      BY <1>2, <2>2, <2>3
  <1>7. RepliesFit'
    BY <1>2, <1>3, <1>4, <1>5 DEF RepliesFit, DBusInv
  <1>8. BoundFits'
    <2>1. \A q \in BusProxy : /\ proxy'[q] = "bound" => proxy[q] = "bound"
                              /\ proxy'[q] \in {"bound", "fault"} => q # p /\ proxy[q] \in {"bound", "fault"}
      BY <1>3
    <2> QED
      BY <1>2, <1>3, <2>1 DEF BoundFits, DBusInv, DBus!manager
  <1>9. ASSUME NEW q \in BusProxy, NEW id \in BusObj, Has(q, id)'
        PROVE  Has(q, id) /\ entry'[q] = entry[q]
    <2>1. q # p
      BY <1>2, <1>3, <1>4, <1>9 DEF Has
    <2> QED
      BY <1>2, <1>3, <1>9, <2>1 DEF Has
  <1>10. \A r \in replies' : r.id \in created \cup {NoObj}
    BY <1>2 DEF DBusInv, KnownIds
  <1>11. FaultsGone'
    <2>1. up' => up /\ \A q \in BusProxy : proxy'[q] = "fault" => proxy[q] = "fault" /\ instance'[q] = instance[q]
      BY <1>1, <1>2, <1>3 DEF DBus!ProcessIncoming, DBus!TypeOK
    <2> QED
      BY <1>2, <2>1, StillGone DEF DBus!manager
  <1> QED
    BY <1>1, <1>2, <1>6, <1>7, <1>8, <1>9, <1>10, <1>11, Shrinking DEF DBus!manager

LEMMA AutostartPreserves ==
  ASSUME DBusInv, DBus!Autostart PROVE DBusInv'
  <1>1. DBus!TypeOK /\ DBus!TypeOK'
    <2>1. DBus!Next
      BY DEF DBus!Next
    <2> QED
      BY <2>1, DBusTypes DEF DBusInv
  <1>2. PICK last \in BusEntry : DBus!Fresh(last)
    BY DEF DBus!Autostart
  <1>3. \A p \in BusProxy, id \in BusObj : ~Has(p, id)'
    BY <1>2 DEF DBus!Autostart, Has, DBus!Fresh, DBusInv, BoundFits
  <1>4. KnownIds' /\ SharedOrPrivate' /\ Apart'
    BY <1>2 DEF DBus!Autostart, DBus!Fresh, KnownIds, SharedOrPrivate, Apart, DBus!Instances,
       DBusInv
  <1>5. RequestsFit' /\ RepliesFit' /\ BoundFits'
    <2>1. RequestsFit'
      BY <1>2 DEF DBus!Autostart, RequestsFit
    <2>2. RepliesFit'
      BY DEF DBus!Autostart, RepliesFit, DBusInv
    <2>3. BoundFits'
      BY DEF DBus!Autostart, BoundFits, DBusInv
    <2> QED
      BY <2>1, <2>2, <2>3
  <1>6. Held' /\ AloneUnlessShared'
    BY <1>3 DEF Held, AloneUnlessShared
  <1>7. SharedCounts'
    <2>1. ASSUME NEW e \in BusEntry PROVE DBusCounted(e)' = {} /\ shared'[e].count = 0
      BY <1>2 DEF DBus!Fresh, DBusCounted, DBus!NoClient
    <2> QED
      BY <2>1, FS_EmptySet DEF SharedCounts
  <1>8. ProxiesCounted'
    <2>1. ASSUME NEW e \in BusEntry PROVE Live(e)' = {} /\ shared'[e].count = 0
      BY <1>2, <1>3 DEF DBus!Fresh, Live
    <2>2. ASSUME NEW e \in BusEntry PROVE Cardinality(Live(e)') <= shared'[e].count
      BY <2>1, FS_EmptySet
    <2> QED
      BY <2>2 DEF ProxiesCounted
  <1>9. FaultsGone' /\ RecordsFit'
    <2>1. ASSUME NEW p \in BusProxy, NEW e \in BusEntry, proxy'[p] = "fault" PROVE instance'[p] \notin DBus!Instances(e)'
      <3>1. DBus!Instances(e)' = {}
        BY <1>2 DEF DBus!Fresh, DBus!Instances
      <3> QED
        BY <3>1
    <2>2. RecordsFit'
      BY <1>2 DEF DBus!Fresh, RecordsFit, DBus!NoClient
    <2> QED
      BY <2>1, <2>2 DEF FaultsGone
  <1> QED
    BY <1>1, <1>4, <1>5, <1>6, <1>7, <1>8, <1>9 DEF DBusInv

LEMMA OneMore ==
  ASSUME NEW S, NEW T, NEW x, IsFiniteSet(S), T \subseteq S \cup {x}
  PROVE  Cardinality(T) <= Cardinality(S) + 1 /\ Cardinality(T) \in Nat /\ Cardinality(S) \in Nat
  <1>1. IsFiniteSet(S \cup {x}) /\ Cardinality(S \cup {x}) <= Cardinality(S) + 1
        /\ Cardinality(S) \in Nat
    BY FS_AddElement, FS_CardinalityType
  <1>2. Cardinality(T) <= Cardinality(S \cup {x}) /\ Cardinality(T) \in Nat
        /\ Cardinality(S \cup {x}) \in Nat
    BY <1>1, Smaller
  <1> QED
    BY <1>1, <1>2

LEMMA OneLess ==
  ASSUME NEW S, NEW T, NEW x \in S, IsFiniteSet(S), T \subseteq S \ {x}
  PROVE  Cardinality(T) <= Cardinality(S) - 1 /\ Cardinality(T) \in Nat /\ Cardinality(S) \in Nat
  <1>1. IsFiniteSet(S \ {x}) /\ Cardinality(S \ {x}) = Cardinality(S) - 1
        /\ Cardinality(S) \in Nat
    BY FS_RemoveElement, FS_CardinalityType
  <1>2. Cardinality(T) <= Cardinality(S \ {x}) /\ Cardinality(T) \in Nat
        /\ Cardinality(S \ {x}) \in Nat
    BY <1>1, Smaller
  <1> QED
    BY <1>1, <1>2

LEMMA FiniteRecords ==
  ASSUME NEW e PROVE IsFiniteSet(Live(e)) /\ IsFiniteSet(DBusCounted(e))
  <1>1. Live(e) \in SUBSET BusProxy /\ DBusCounted(e) \in SUBSET BusClient
    BY DEF Live, DBusCounted
  <1> QED
    BY <1>1, FS_Subset, DBusAssumption

\* The package handled leaves the queue of its client as it should be.
LEMMA PoppedRequests ==
  ASSUME DBusInv, NEW p \in BusProxy, DBus!Asked(p),
         \A r \in replies' : r \in replies \/ r.proxy = p
  PROVE  \A c \in BusClient : \A i \in DOMAIN requests'[c] :
           /\ OwnerOf[requests'[c][i]] = c
           /\ proxy[requests'[c][i]] \in {"waiting", "released"}
           /\ requests'[c][i] \in BusProxy
           /\ entry[requests'[c][i]] \in BusEntry
           /\ \A r \in replies' : r.proxy # requests'[c][i]
           /\ \A j \in DOMAIN requests'[c] : i # j => requests'[c][i] # requests'[c][j]
  <1>1. DBus!TypeOK
    BY DEF DBusInv
  <1>3. /\ OwnerOf[p] \in BusClient /\ 1 \in DOMAIN requests[OwnerOf[p]] /\ requests[OwnerOf[p]][1] = p
    BY HeadAsked
  <1>4. ASSUME NEW c \in BusClient, NEW i \in DOMAIN requests[c], requests[c][i] # p
        PROVE  \A r \in replies' : r.proxy # requests[c][i]
    BY <1>4 DEF DBusInv, RequestsFit
  <1>5. ASSUME NEW c \in BusClient PROVE requests[c] \in Seq(BusProxy)
    BY <1>1 DEF DBus!TypeOK
  <1>6. ASSUME NEW c \in BusClient, NEW i \in DOMAIN requests'[c]
        PROVE  /\ OwnerOf[requests'[c][i]] = c
               /\ proxy[requests'[c][i]] \in {"waiting", "released"}
               /\ requests'[c][i] \in BusProxy
               /\ entry[requests'[c][i]] \in BusEntry
               /\ \A r \in replies' : r.proxy # requests'[c][i]
               /\ \A j \in DOMAIN requests'[c] : i # j => requests'[c][i] # requests'[c][j]
    <2>1. CASE c # OwnerOf[p]
      <3>1. requests'[c] = requests[c]
        BY <1>1, <1>3, <2>1 DEF DBus!Asked, DBus!TypeOK
      <3>2. requests[c][i] # p
        BY <2>1, <3>1 DEF DBusInv, RequestsFit
      <3>3. requests[c][i] \in BusProxy
        BY <1>5, <3>1
      <3> QED
        BY <1>4, <3>1, <3>2, <3>3 DEF DBusInv, RequestsFit
    <2>2. CASE c = OwnerOf[p]
      <3> DEFINE s == requests[c]
      <3>1. s \in Seq(BusProxy) /\ s # <<>> /\ requests'[c] = Tail(s)
        BY <1>1, <1>3, <2>2 DEF DBus!Asked, DBus!TypeOK
      <3> HIDE DEF s
      <3>2. /\ i + 1 \in DOMAIN s /\ requests'[c][i] = s[i + 1] /\ i + 1 # 1
            /\ s[i + 1] \in BusProxy
            /\ \A j \in DOMAIN requests'[c] : j + 1 \in DOMAIN s /\ requests'[c][j] = s[j + 1]
                                            /\ (i # j => i + 1 # j + 1)
        BY <3>1
      <3>3. s[i + 1] # p
        BY <1>3, <2>2, <3>2 DEF DBusInv, RequestsFit, s
      <3>4. \A j \in DOMAIN requests'[c] : i # j => requests'[c][i] # requests'[c][j]
        BY <3>2 DEF DBusInv, RequestsFit, s
      <3>5. \A r \in replies' : r.proxy # s[i + 1]
        BY <1>4, <3>2, <3>3 DEF s
      <3> QED
        BY <3>2, <3>4, <3>5 DEF DBusInv, RequestsFit, s
    <2> QED
      BY <2>1, <2>2
  <1> QED
    BY <1>6

LEMMA Popped ==
  ASSUME DBusInv, NEW p \in BusProxy, DBus!Asked(p), NEW id \in BusObj \cup {NoObj}, DBus!Broadcast(p, id),
         UNCHANGED <<proxy, entry>>
  PROVE  /\ RequestsFit' /\ RepliesFit'
         /\ \A r \in replies' : r \in replies \/ r = [proxy |-> p, id |-> id]
         /\ \A x \in BusObj : ~Has(p, x)
  <1>1. \A r \in replies' : r \in replies \/ r = [proxy |-> p, id |-> id]
    BY DEF DBus!Broadcast
  <1>2. /\ entry[p] \in BusEntry /\ proxy[p] \in {"waiting", "released"}
        /\ \A r \in replies : r.proxy # p
    BY HeadAsked
  <1>3. RequestsFit'
    BY <1>1, PoppedRequests DEF RequestsFit
  <1>4. RepliesFit'
    BY <1>1, <1>2 DEF RepliesFit, DBusInv
  <1>5. \A x \in BusObj : ~Has(p, x)
    BY <1>2 DEF Has
  <1> QED
    BY <1>1, <1>3, <1>4, <1>5

LEMMA RefusedPreserves ==
  ASSUME DBusInv, NEW p \in BusProxy, DBus!ObjectRefused(p) PROVE DBusInv'
  <1>1. DBus!TypeOK /\ DBus!TypeOK'
    <2>1. DBus!Next
      BY DEF DBus!Next
    <2> QED
      BY <2>1, DBusTypes DEF DBusInv
  <1>2. DBus!Asked(p) /\ DBus!Broadcast(p, NoObj) /\ UNCHANGED <<proxy, entry, instance, up, clientList, DBus!manager, paths>>
    BY DEF DBus!ObjectRefused, DBus!service
  <1>3. RequestsFit' /\ RepliesFit' /\ \A r \in replies' : r \in replies \/ r = [proxy |-> p, id |-> NoObj]
    BY <1>2, Popped
  <1>4. BoundFits'
    <2>1. proxy[p] \notin {"bound", "fault"}
      BY <1>2, HeadAsked
    <2> QED
      BY <1>2, <1>3, <2>1 DEF BoundFits, DBusInv, DBus!manager
  <1>5. \A r \in replies' : r.id \in created \cup {NoObj}
    BY <1>3 DEF DBusInv, KnownIds
  <1>6. ASSUME NEW q \in BusProxy, NEW id \in BusObj, Has(q, id)'
        PROVE  Has(q, id) /\ entry'[q] = entry[q]
    <2>1. id # NoObj
      BY DBusAssumption
    <2>2. [proxy |-> q, id |-> id] \in replies' => [proxy |-> q, id |-> id] \in replies
      BY <1>3, <2>1
    <2> QED
      BY <1>2, <1>6, <2>2 DEF Has
  <1>7. FaultsGone'
    BY <1>2, StillGone DEF DBus!manager
  <1> QED
    BY <1>1, <1>2, <1>3, <1>4, <1>5, <1>6, <1>7, Shrinking DEF DBus!manager

LEMMA RejectedPreserves ==
  ASSUME DBusInv, NEW p \in BusProxy, DBus!ObjectRejected(p) PROVE DBusInv'
  <1>1. DBus!TypeOK /\ DBus!TypeOK'
    <2>1. DBus!Next
      BY DEF DBus!Next
    <2> QED
      BY <2>1, DBusTypes DEF DBusInv
  <1>2. /\ DBus!Asked(p) /\ DBus!Broadcast(p, NoObj) /\ created \subseteq created'
        /\ UNCHANGED <<entry, instance, clientList, shared, private, paths>>
    BY DEF DBus!ObjectRejected
  <1>3. /\ up
        /\ up' => proxy' = proxy
        /\ \A q \in BusProxy : proxy'[q] = proxy[q] \/ (proxy[q] = "bound" /\ proxy'[q] = "fault")
        /\ ~up' => \A q \in BusProxy : proxy'[q] # "bound"
    <2>1. up /\ \A q \in BusProxy : proxy'[q] = IF proxy[q] = "bound" /\ ~up' THEN "fault" ELSE proxy[q]
      BY DEF DBus!ObjectRejected, DBus!Asked
    <2>2. up' => proxy' = proxy
      BY <1>1, <2>1 DEF DBus!TypeOK
    <2> QED
      BY <2>1, <2>2
  <1>4. /\ OwnerOf[p] \in BusClient /\ entry[p] \in BusEntry /\ proxy[p] \in {"waiting", "released"}
        /\ \A r \in replies : r.proxy # p
    BY <1>2, HeadAsked
  <1>5. \A r \in replies' : r \in replies \/ r = [proxy |-> p, id |-> NoObj]
    BY <1>2 DEF DBus!Broadcast
  <1>6. RequestsFit' /\ RepliesFit'
    <2>1. ASSUME NEW c \in BusClient, NEW i \in DOMAIN requests'[c]
          PROVE  /\ OwnerOf[requests'[c][i]] = c
                 /\ proxy[requests'[c][i]] \in {"waiting", "released"}
                 /\ requests'[c][i] \in BusProxy
                 /\ entry[requests'[c][i]] \in BusEntry
                 /\ \A r \in replies' : r.proxy # requests'[c][i]
                 /\ \A j \in DOMAIN requests'[c] : i # j => requests'[c][i] # requests'[c][j]
      BY <1>1, <1>2, <1>5, PoppedRequests
    <2>2. \A r \in replies : r.proxy \in BusProxy
      BY <1>1 DEF DBus!TypeOK
    <2> QED
      BY <1>2, <1>3, <1>4, <1>5, <2>1, <2>2 DEF RequestsFit, RepliesFit, DBusInv
  <1>7. BoundFits'
    BY <1>2, <1>3, <1>4, <1>5 DEF BoundFits, DBusInv
  <1>8. \A r \in replies' : r.id \in created' \cup {NoObj}
    BY <1>2, <1>5 DEF DBusInv, KnownIds
  <1>9. ASSUME NEW q \in BusProxy, NEW id \in BusObj, Has(q, id)'
        PROVE  Has(q, id) /\ entry'[q] = entry[q]
    <2>1. id # NoObj
      BY DBusAssumption
    <2>2. [proxy |-> q, id |-> id] \in replies' => [proxy |-> q, id |-> id] \in replies
      BY <1>5, <2>1
    <2> QED
      BY <1>2, <1>3, <1>9, <2>2 DEF Has
  <1>10. FaultsGone'
    BY <1>2, <1>3, StillGone
  <1> QED
    BY <1>1, <1>2, <1>6, <1>7, <1>8, <1>9, <1>10, Shrinking

LEMMA ReadReplyPreserves ==
  ASSUME DBusInv, NEW r \in replies, DBus!ReadReply(r) PROVE DBusInv'
  <1>1. DBus!TypeOK /\ DBus!TypeOK'
    <2>1. DBus!Next
      BY DEF DBus!Next
    <2> QED
      BY <2>1, DBusTypes DEF DBusInv
  <1>2. /\ r.proxy \in BusProxy /\ r.id \in BusObj \cup {NoObj} /\ r = [proxy |-> r.proxy, id |-> r.id]
        /\ replies' = replies \ {r}
        /\ UNCHANGED <<up, clientList, DBus!manager, paths, requests, entry>>
    BY <1>1 DEF DBus!ReadReply, DBus!TypeOK, DBus!service
  <1> DEFINE p == r.proxy
  <1>3. /\ \A q \in BusProxy : q # p => proxy'[q] = proxy[q] /\ instance'[q] = instance[q]
        /\ \/ proxy'[p] = proxy[p] /\ instance'[p] = instance[p]
           \/ /\ proxy[p] = "waiting" /\ proxy'[p] \in {"refused", "bound", "fault"}
              /\ instance'[p] = r.id
              /\ proxy'[p] = "bound" => up /\ r.id \in paths
              /\ proxy'[p] = "fault" => r.id # NoObj /\ (up => r.id \notin paths)
    <2>1. CASE proxy[p] = "waiting" /\ OwnerOf[p] \in alive
      BY <1>1, <1>2, <2>1 DEF DBus!ReadReply, DBus!TypeOK
    <2>2. CASE ~(proxy[p] = "waiting" /\ OwnerOf[p] \in alive)
      BY <2>2 DEF DBus!ReadReply
    <2> QED
      BY <2>1, <2>2
  <1>4. RequestsFit'
    <2>1. ASSUME NEW c \in BusClient, NEW i \in DOMAIN requests[c]
          PROVE  requests[c][i] \in BusProxy /\ requests[c][i] # p
      BY <1>1 DEF DBusInv, RequestsFit, DBus!TypeOK
    <2> QED
      BY <1>2, <1>3, <2>1 DEF DBusInv, RequestsFit
  <1>5. RepliesFit'
    <2>1. \A s \in replies' : s \in replies /\ s.proxy # p /\ s.proxy \in BusProxy
      BY <1>1, <1>2 DEF DBusInv, RepliesFit, DBus!TypeOK
    <2> QED
      BY <1>2, <1>3, <2>1 DEF DBusInv, RepliesFit
  <1>6. BoundFits'
    <2>1. \A s \in replies' : s \in replies /\ s.proxy # p
      BY <1>2 DEF DBusInv, RepliesFit
    <2>2. paths \subseteq created /\ entry[p] \in BusEntry /\ r.id \in created \cup {NoObj}
      BY DEF DBusInv, KnownIds, RepliesFit
    <2>3. UNCHANGED <<up, created, entry>>
      BY <1>2 DEF DBus!manager
    <2>4. ASSUME NEW q \in BusProxy, proxy'[q] \in {"bound", "fault"}
          PROVE  instance'[q] \in created /\ entry[q] \in BusEntry /\ \A s \in replies' : s.proxy # q
      BY <1>3, <2>1, <2>2, <2>4 DEF DBusInv, BoundFits
    <2>5. ~up => \A q \in BusProxy : proxy'[q] # "bound"
      BY <1>3 DEF DBusInv, BoundFits
    <2> QED
      BY <2>3, <2>4, <2>5 DEF BoundFits
  <1>7. ASSUME NEW q \in BusProxy, NEW id \in BusObj, Has(q, id)'
        PROVE  Has(q, id) /\ entry'[q] = entry[q]
    <2>1. CASE q # p
      BY <1>2, <1>3, <1>7, <2>1 DEF Has
    <2>2. CASE q = p
      BY <1>2, <1>3, <1>7, <2>2 DEF Has
    <2> QED
      BY <1>2, <2>1, <2>2
  <1>8. \A s \in replies' : s.id \in created \cup {NoObj}
    BY <1>2 DEF DBusInv, KnownIds
  <1>9. FaultsGone'
    <2>1. ASSUME NEW q \in BusProxy, up, proxy'[q] = "fault"
          PROVE  (proxy[q] = "fault" /\ instance'[q] = instance[q]) \/ instance'[q] \notin paths
      BY <1>3, <2>1
    <2> QED
      BY <1>2, <2>1, StillGone DEF DBus!manager
  <1> QED
    BY <1>1, <1>2, <1>4, <1>5, <1>6, <1>7, <1>8, <1>9, Shrinking DEF DBus!manager

LEMMA DiesPreserves ==
  ASSUME DBusInv, DBus!ServiceDies \/ \E c \in BusClient : DBus!ClientDies(c) PROVE DBusInv'
  <1>1. DBus!TypeOK /\ DBus!TypeOK'
    <2>1. DBus!Next
      BY DEF DBus!Next
    <2> QED
      BY <2>1, DBusTypes DEF DBusInv
  <1>2. /\ UNCHANGED <<clientList, DBus!manager, paths, requests, replies, entry, instance>>
        /\ \A p \in BusProxy : \/ proxy'[p] = proxy[p]
                               \/ proxy'[p] = "released"
                               \/ proxy[p] = "bound" /\ proxy'[p] = "fault"
        /\ \A p \in BusProxy : proxy[p] = "none" => proxy'[p] # "fault"
        /\ up' = up \/ \A p \in BusProxy : proxy'[p] # "bound"
    BY <1>1 DEF DBus!ServiceDies, DBus!ClientDies, DBus!Abandon, DBus!service, DBus!TypeOK
  <1>3. RequestsFit'
    <2>1. ASSUME NEW c \in BusClient, NEW i \in DOMAIN requests[c]
          PROVE  requests[c][i] \in BusProxy /\ proxy'[requests[c][i]] \in {"waiting", "released"}
      <3>1. requests[c][i] \in BusProxy /\ proxy[requests[c][i]] \in {"waiting", "released"}
        BY <1>1 DEF DBusInv, RequestsFit, DBus!TypeOK
      <3> QED
        BY <1>2, <3>1
    <2> QED
      BY <1>2, <2>1 DEF DBusInv, RequestsFit
  <1>4. RepliesFit'
    <2>1. \A s \in replies : s.proxy \in BusProxy
      BY <1>1 DEF DBus!TypeOK
    <2> QED
      BY <1>2, <2>1 DEF DBusInv, RepliesFit
  <1>5. BoundFits'
    <2>1. ASSUME NEW p \in BusProxy, proxy'[p] \in {"bound", "fault"} PROVE proxy[p] \in {"bound", "fault"}
      BY <1>2, <2>1
    <2>2. \A p \in BusProxy : proxy'[p] = "bound" => proxy[p] = "bound"
      BY <1>2
    <2> QED
      BY <1>2, <2>1, <2>2 DEF DBusInv, BoundFits, DBus!manager
  <1>6. ASSUME NEW q \in BusProxy, NEW id \in BusObj, Has(q, id)'
        PROVE  Has(q, id) /\ entry'[q] = entry[q]
    BY <1>2, <1>6 DEF Has
  <1>7. \A s \in replies' : s.id \in created \cup {NoObj}
    BY <1>2 DEF DBusInv, KnownIds
  <1>8. FaultsGone'
    <2>1. up' => up /\ \A p \in BusProxy : proxy'[p] = "fault" => proxy[p] = "fault"
      BY <1>1 DEF DBus!ServiceDies, DBus!ClientDies, DBus!service, DBus!TypeOK
    <2> QED
      BY <1>2, <2>1, StillGone DEF DBus!manager
  <1> QED
    BY <1>1, <1>2, <1>3, <1>4, <1>5, <1>6, <1>7, <1>8, Shrinking DEF DBus!manager

LEMMA GrantedPreserves ==
  ASSUME DBusInv, NEW p \in BusProxy, DBus!ObjectGranted(p) PROVE DBusInv'
  <1>1. DBus!TypeOK /\ DBus!TypeOK'
    <2>1. DBus!Next
      BY DEF DBus!Next
    <2> QED
      BY <2>1, DBusTypes DEF DBusInv
  <1>0. PICK id \in BusObj :
          /\ DBus!Asked(p)
          /\ DBus!Grant(entry[p], id)
          /\ paths' = paths \cup {id}
          /\ clientList' = [clientList EXCEPT ![entry[p]][OwnerOf[p]] = DBus!Joined(@, id)]
          /\ DBus!Broadcast(p, id)
          /\ UNCHANGED <<up, session, accept, alive, proxy, entry, instance>>
    BY DEF DBus!ObjectGranted
  <1>3. PICK e \in BusEntry, c \in BusClient :
          entry[p] = e /\ OwnerOf[p] = c /\ proxy[p] \in {"waiting", "released"}
    BY <1>0, HeadAsked
  <1>2. /\ DBus!Asked(p) /\ DBus!Broadcast(p, id)
        /\ DBus!Grant(e, id)
        /\ paths' = paths \cup {id}
        /\ clientList' = [clientList EXCEPT ![e][c] = DBus!Joined(clientList[e][c], id)]
        /\ UNCHANGED <<up, session, accept, alive, proxy, entry, instance>>
    BY <1>0, <1>3
  <1>4. /\ RequestsFit' /\ RepliesFit'
        /\ \A r \in replies' : r \in replies \/ r = [proxy |-> p, id |-> id]
        /\ \A x \in BusObj : ~Has(p, x)
    BY <1>2, Popped
  <1> DEFINE again == e \in GlobalEntry /\ shared[e].id # NoObj
  <1>5. again => /\ id = shared[e].id /\ id \in DBus!Instances(e) /\ id \in paths
                 /\ UNCHANGED <<private, created>>
                 /\ \A f \in BusEntry : shared'[f].id = shared[f].id
                 /\ \A f \in BusEntry : f # e => shared'[f] = shared[f]
                 /\ shared'[e].count = shared[e].count + 1
    <2>1. again => id \in DBus!Instances(e) /\ id = shared[e].id
      BY <1>2 DEF DBus!Grant, DBus!Instances
    <2>2. DBus!Instances(e) \subseteq paths
      BY <1>3 DEF DBusInv, KnownIds
    <2>3. again => shared' = [shared EXCEPT ![e].count = @ + 1] /\ UNCHANGED <<private, created>>
      BY <1>2 DEF DBus!Grant
    <2>4. again => /\ \A f \in BusEntry : shared'[f].id = shared[f].id
                   /\ \A f \in BusEntry : f # e => shared'[f] = shared[f]
                   /\ shared'[e].count = shared[e].count + 1
      <3>1. /\ shared \in [BusEntry -> [id : BusObj \cup {NoObj}, count : Nat]]
            /\ shared[e] \in [id : BusObj \cup {NoObj}, count : Nat]
        BY <1>1, <1>3 DEF DBus!TypeOK
      <3> DEFINE w == [shared[e] EXCEPT !.count = @ + 1]
      <3>2. w.id = shared[e].id /\ w.count = shared[e].count + 1
        BY <3>1
      <3>3. again => shared' = [shared EXCEPT ![e] = w]
        BY <2>3
      <3> HIDE DEF w
      <3>4. again => shared'[e] = w /\ \A f \in BusEntry : f # e => shared'[f] = shared[f]
        BY <1>3, <3>1, <3>3
      <3> QED
        BY <3>2, <3>4
    <2> QED
      BY <2>1, <2>2, <2>3, <2>4
  <1>6. ~again => /\ id \notin created /\ created' = created \cup {id}
                  /\ \A f \in BusEntry : f # e => shared'[f] = shared[f] /\ private'[f] = private[f]
                  /\ e \in GlobalEntry => shared'[e] = [id |-> id, count |-> 1] /\ private'[e] = private[e]
                  /\ e \notin GlobalEntry => shared'[e] = shared[e] /\ private'[e] = private[e] \cup {id}
    <2> QED
      BY <1>1, <1>2, <1>3 DEF DBus!Grant, DBus!TypeOK
  <1> HIDE DEF again
  <1>7. id # NoObj
    BY DBusAssumption
  <1>8. /\ DBus!Instances(e)' = DBus!Instances(e) \cup {id}
        /\ \A f \in BusEntry : f # e => DBus!Instances(f)' = DBus!Instances(f)
    <2>1. ASSUME NEW f \in BusEntry, f # e PROVE DBus!Instances(f)' = DBus!Instances(f)
      <3>1. private'[f] = private[f] /\ shared'[f].id = shared[f].id
        BY <1>5, <1>6, <2>1
      <3> QED
        BY <3>1 DEF DBus!Instances
    <2>2. DBus!Instances(e)' = private'[e] \cup ({shared'[e].id} \ {NoObj})
          /\ DBus!Instances(e) = private[e] \cup ({shared[e].id} \ {NoObj})
      BY <1>2 DEF DBus!Instances
    <2>3. DBus!Instances(e)' = DBus!Instances(e) \cup {id}
      <3>1. CASE again
        BY <1>3, <1>5, <2>2, <3>1
      <3>2. CASE ~again /\ e \in GlobalEntry
        <4>1. shared[e].id = NoObj
          BY <3>2 DEF again
        <4>2. shared'[e].id = id /\ private'[e] = private[e]
          BY <1>6, <3>2
        <4> QED
          BY <1>7, <2>2, <4>1, <4>2
      <3>3. CASE ~again /\ e \notin GlobalEntry
        <4>1. shared'[e] = shared[e] /\ private'[e] = private[e] \cup {id}
          BY <1>6, <3>3
        <4> QED
          BY <2>2, <4>1
      <3> QED
        BY <3>1, <3>2, <3>3
    <2> QED
      BY <2>1, <2>3
  <1>9. \A q \in BusProxy, x \in BusObj : Has(q, x)' => Has(q, x) \/ (q = p /\ x = id)
    <2>1. ASSUME NEW q \in BusProxy, NEW x \in BusObj, Has(q, x)', ~(q = p /\ x = id)
          PROVE  Has(q, x)
      <3>1. CASE proxy[q] = "bound"
        BY <1>2, <2>1, <3>1 DEF Has
      <3>2. CASE proxy[q] # "bound"
        <4>1. proxy[q] = "waiting" /\ x \in paths \cup {id} /\ [proxy |-> q, id |-> x] \in replies'
          BY <1>2, <2>1, <3>2 DEF Has
        <4>2. [proxy |-> q, id |-> x] \in replies
          BY <1>4, <2>1, <4>1
        <4>3. x \in paths
          <5>1. x \in created
            BY <4>2, DBusAssumption DEF DBusInv, KnownIds
          <5>2. x = id => again
            BY <1>6, <5>1
          <5> QED
            BY <1>5, <4>1, <5>2
        <4> QED
          BY <4>1, <4>2, <4>3 DEF Has
      <3> QED
        BY <3>1, <3>2
    <2> QED
      BY <2>1
  <1>10. ~again => \A q \in BusProxy : ~Has(q, id)
    <2>1. ASSUME NEW q \in BusProxy, Has(q, id) PROVE id \in created
      BY <2>1 DEF DBusInv, Held, KnownIds
    <2> QED
      BY <1>6, <2>1
  <1>11. KnownIds'
    <2>1. created \subseteq created' /\ id \in created'
      BY <1>5, <1>6, DBusAssumption DEF DBusInv, KnownIds
    <2>2. \A f \in BusEntry : DBus!Instances(f)' \subseteq paths'
      BY <1>2, <1>8 DEF DBusInv, KnownIds
    <2>3. paths' \subseteq created'
      BY <1>2, <2>1 DEF DBusInv, KnownIds
    <2>4. \A r \in replies' : r.id \in created' \cup {NoObj}
      BY <1>4, <2>1 DEF DBusInv, KnownIds
    <2>5. \A f \in BusEntry : private'[f] \subseteq created' /\ shared'[f].id \in created' \cup {NoObj}
      BY <2>2, <2>3 DEF DBus!Instances
    <2> QED
      BY <2>2, <2>3, <2>4, <2>5 DEF KnownIds
  <1>12. SharedOrPrivate'
    <2>1. shared[e].count \in Nat
      BY <1>1, <1>3 DEF DBus!TypeOK
    <2>2. CASE again
      <3>1. e \in GlobalEntry /\ shared[e].count + 1 # 0
        BY <2>1, <2>2 DEF again
      <3>2. shared[e].id # NoObj
        BY <2>2 DEF again
      <3> QED
        BY <1>3, <1>5, <2>2, <3>1, <3>2 DEF SharedOrPrivate, DBusInv
    <2>3. CASE ~again
      BY <1>3, <1>6, <1>7, <2>3 DEF SharedOrPrivate, DBusInv
    <2> QED
      BY <2>2, <2>3
  <1>13. Apart'
    <2>1. ASSUME NEW f \in BusEntry, f # e PROVE id \notin DBus!Instances(f)
      <3>1. CASE again
        BY <1>3, <1>5, <2>1, <3>1 DEF DBusInv, Apart
      <3>2. CASE ~again
        BY <1>6, <3>2 DEF DBusInv, KnownIds
      <3> QED
        BY <3>1, <3>2
    <2>2. ASSUME NEW f \in BusEntry, NEW g \in BusEntry, f # g
          PROVE  DBus!Instances(f)' \cap DBus!Instances(g)' = {}
      <3>1. DBus!Instances(f) \cap DBus!Instances(g) = {}
        BY <2>2 DEF DBusInv, Apart
      <3> QED
        <4>1. CASE f = e
          <5>1. g # e /\ id \notin DBus!Instances(g)
            BY <2>1, <2>2, <4>1
          <5> QED
            BY <1>8, <3>1, <4>1, <5>1
        <4>2. CASE g = e
          <5>1. f # e /\ id \notin DBus!Instances(f)
            BY <2>1, <2>2, <4>2
          <5> QED
            BY <1>8, <3>1, <4>2, <5>1
        <4>3. CASE f # e /\ g # e
          BY <1>8, <3>1, <4>3
        <4> QED
          BY <4>1, <4>2, <4>3
    <2> QED
      BY <2>2 DEF Apart
  <1>14. BoundFits'
    <2>1. created \subseteq created'
      BY <1>5, <1>6
    <2>2. \A q \in BusProxy : proxy[q] \in {"bound", "fault"} => q # p
      BY <1>3
    <2> QED
      BY <1>2, <1>4, <2>1, <2>2 DEF BoundFits, DBusInv
  <1>15. Held'
    BY <1>2, <1>3, <1>8, <1>9 DEF Held, DBusInv
  <1>16. AloneUnlessShared'
    <2>1. ASSUME NEW q \in BusProxy, Has(q, id) PROVE entry[q] = e /\ e \in GlobalEntry
      <3>1. again
        BY <1>10, <2>1
      <3>2. entry[q] \in BusEntry /\ id \in DBus!Instances(entry[q])
        BY <2>1 DEF DBusInv, Held
      <3> QED
        BY <1>3, <1>5, <3>1, <3>2 DEF DBusInv, Apart, again
    <2>2. ASSUME NEW q \in BusProxy, NEW s \in BusProxy, NEW x \in BusObj, Has(q, x)', Has(s, x)', q # s
          PROVE  entry'[q] \in GlobalEntry
      <3>1. CASE Has(q, x) /\ Has(s, x)
        BY <1>2, <2>2, <3>1 DEF DBusInv, AloneUnlessShared
      <3>2. CASE q = p /\ x = id
        BY <1>2, <1>3, <1>9, <2>1, <2>2, <3>2
      <3>3. CASE s = p /\ x = id
        BY <1>2, <1>3, <1>9, <2>1, <2>2, <3>3
      <3> QED
        BY <1>9, <2>2, <3>1, <3>2, <3>3
    <2> QED
      BY <2>2 DEF AloneUnlessShared
  <1>17. /\ \A f \in BusEntry, d \in BusClient : f # e \/ d # c => clientList'[f][d] = clientList[f][d]
         /\ clientList'[e][c].id = IF clientList[e][c] = DBus!NoClient THEN id ELSE clientList[e][c].id
    <2>1. clientList \in [BusEntry -> [BusClient -> Record]] /\ clientList[e][c] \in Record
      BY <1>1, <1>3 DEF DBus!TypeOK, Record
    <2>2. /\ DBus!Joined(clientList[e][c], id).id = IF clientList[e][c] = DBus!NoClient THEN id ELSE clientList[e][c].id
          /\ DBus!Joined(clientList[e][c], id) \in Record
      <3>1. CASE clientList[e][c] = DBus!NoClient
        BY <3>1 DEF DBus!Joined, DBus!NoClient, Record
      <3>2. CASE clientList[e][c] # DBus!NoClient
        <4> DEFINE l == clientList[e][c]
        <4>1. l \in [id : BusObj \cup {NoObj}, ref : Int] /\ l.ref + 1 \in Int
          BY <2>1 DEF Record
        <4>2. DBus!Joined(l, id) = [l EXCEPT !.ref = @ + 1]
          BY <3>2 DEF DBus!Joined
        <4> HIDE DEF l
        <4>3. DBus!Joined(l, id).id = l.id /\ DBus!Joined(l, id) \in Record
          BY <4>1, <4>2 DEF Record
        <4> QED
          BY <3>2, <4>3 DEF l
      <3> QED
        BY <3>1, <3>2
    <2>3. clientList' = [clientList EXCEPT ![e][c] = DBus!Joined(clientList[e][c], id)]
      BY <1>2
    <2> QED
      BY <1>3, <2>1, <2>2, <2>3, TableUpdated
  <1>18. SharedCounts'
    <2>1. ASSUME NEW f \in BusEntry \cap GlobalEntry
          PROVE  Cardinality(DBusCounted(f)') <= shared'[f].count
      <3>1. Cardinality(DBusCounted(f)) <= shared[f].count /\ shared[f].count \in Nat
        BY <1>1 DEF DBusInv, SharedCounts, DBus!TypeOK
      <3>2. CASE f # e
        <4>1. DBusCounted(f)' = DBusCounted(f)
          BY <1>17, <3>2 DEF DBusCounted
        <4>2. shared'[f] = shared[f]
          BY <1>5, <1>6, <3>2
        <4> QED
          BY <3>1, <4>1, <4>2
      <3>3. CASE f = e
        <4>1. DBusCounted(f)' \subseteq DBusCounted(f) \cup {c}
          BY <1>17, <3>3 DEF DBusCounted
        <4>2. Cardinality(DBusCounted(f)') <= Cardinality(DBusCounted(f)) + 1
              /\ Cardinality(DBusCounted(f)') \in Nat /\ Cardinality(DBusCounted(f)) \in Nat
          BY <4>1, FiniteRecords, OneMore
        <4>3. CASE again
          BY <1>5, <3>1, <3>3, <4>2, <4>3
        <4>4. CASE ~again
          <5>1. shared[e].id = NoObj
            BY <3>3, <4>4 DEF again
          <5>2. shared[e].count = 0
            BY <1>3, <5>1 DEF DBusInv, SharedOrPrivate
          <5>3. shared'[e].count = 1
            BY <1>6, <3>3, <4>4
          <5> QED
            BY <3>1, <3>3, <4>2, <5>2, <5>3
        <4> QED
          BY <4>3, <4>4
      <3> QED
        BY <3>2, <3>3
    <2> QED
      BY <2>1 DEF SharedCounts
  <1>19. ProxiesCounted'
    <2>1. ASSUME NEW f \in BusEntry \cap GlobalEntry
          PROVE  Cardinality(Live(f)') <= shared'[f].count
      <3>1. Cardinality(Live(f)) <= shared[f].count /\ shared[f].count \in Nat
        BY <1>1 DEF DBusInv, ProxiesCounted, DBus!TypeOK
      <3>2. Live(f)' \subseteq Live(f) \cup {p}
        BY <1>2, <1>3, <1>9 DEF Live
      <3>3. CASE f = e
        <4>1. Cardinality(Live(f)') <= Cardinality(Live(f)) + 1
              /\ Cardinality(Live(f)') \in Nat /\ Cardinality(Live(f)) \in Nat
          BY <3>2, FiniteRecords, OneMore
        <4>2. shared'[e].count = shared[e].count + 1
          <5>1. CASE again
            BY <1>5, <5>1
          <5>2. CASE ~again
            <6>1. shared[e].count = 0
              BY <1>3, <3>3, <5>2 DEF again, DBusInv, SharedOrPrivate
            <6>2. shared'[e].count = 1
              BY <1>6, <3>3, <5>2
            <6> QED
              BY <6>1, <6>2
          <5> QED
            BY <5>1, <5>2
        <4> QED
          BY <3>1, <3>3, <4>1, <4>2
      <3>4. CASE f # e
        <4>1. p \notin Live(f)'
          BY <1>2, <1>3, <3>4 DEF Live
        <4>2. Live(f)' \subseteq Live(f)
          BY <3>2, <4>1
        <4>3. Cardinality(Live(f)') <= Cardinality(Live(f)) /\ Cardinality(Live(f)') \in Nat
              /\ Cardinality(Live(f)) \in Nat
          BY <4>2, FiniteRecords, Smaller
        <4>4. shared'[f] = shared[f]
          BY <1>5, <1>6, <3>4
        <4> QED
          BY <3>1, <4>3, <4>4
      <3> QED
        BY <3>3, <3>4
    <2> QED
      BY <2>1 DEF ProxiesCounted
  <1>20. FaultsGone'
    <2>1. ASSUME NEW q \in BusProxy, NEW f \in BusEntry, up, proxy[q] = "fault"
          PROVE  instance[q] \notin DBus!Instances(f)'
      <3>1. instance[q] \notin DBus!Instances(f) /\ instance[q] \notin DBus!Instances(e)
        BY <1>3, <2>1 DEF DBusInv, FaultsGone
      <3>2. instance[q] # id
        <4>1. CASE again
          BY <1>5, <3>1, <4>1
        <4>2. CASE ~again
          BY <1>6, <2>1, <4>2 DEF DBusInv, BoundFits
        <4> QED
          BY <4>1, <4>2
      <3>3. CASE f = e
        <4>1. DBus!Instances(f)' = DBus!Instances(f) \cup {id}
          BY <1>8, <3>3 DEF DBus!Instances
        <4> QED
          BY <3>1, <3>2, <4>1
      <3>4. CASE f # e
        BY <1>8, <3>1, <3>4
      <3> QED
        BY <3>3, <3>4
    <2> QED
      BY <1>2, <2>1 DEF FaultsGone
  <1>21. RecordsFit'
    <2>1. ASSUME NEW f \in BusEntry, NEW d \in BusClient, clientList'[f][d] # DBus!NoClient
          PROVE  /\ clientList'[f][d].id \in BusObj
                 /\ f \in GlobalEntry => clientList'[f][d].id = shared'[f].id
      <3>1. clientList[f][d] # DBus!NoClient =>
              /\ clientList[f][d].id \in BusObj
              /\ f \in GlobalEntry => clientList[f][d].id = shared[f].id
        BY DEF DBusInv, RecordsFit
      <3>2. f = e /\ f \in GlobalEntry /\ clientList[f][d] # DBus!NoClient => again
        BY <3>1, DBusAssumption DEF again
      <3>3. f \in GlobalEntry => shared'[f].id = IF f = e THEN id ELSE shared[f].id
        BY <1>5, <1>6
      <3>4. CASE clientList[f][d] # DBus!NoClient
        <4>1. clientList'[f][d].id = clientList[f][d].id
          BY <1>17, <3>4
        <4>2. f \in GlobalEntry => shared'[f].id = shared[f].id
          BY <1>5, <3>2, <3>3, <3>4
        <4> QED
          BY <3>1, <3>4, <4>1, <4>2
      <3>5. CASE clientList[f][d] = DBus!NoClient
        <4>1. f = e /\ d = c
          BY <1>17, <2>1, <3>5
        <4> QED
          BY <1>17, <3>3, <3>5, <4>1
      <3> QED
        BY <3>4, <3>5
    <2> QED
      BY <2>1 DEF RecordsFit, DBus!NoClient
  <1> QED
    BY <1>1, <1>4, <1>11, <1>12, <1>13, <1>14, <1>15, <1>16, <1>18, <1>19, <1>20, <1>21 DEF DBusInv

LEMMA DestroyPreserves ==
  ASSUME DBusInv, NEW p \in BusProxy, DBus!DestroyProxy(p) PROVE DBusInv'
  <1>1. DBus!TypeOK /\ DBus!TypeOK'
    <2>1. DBus!Next
      BY DEF DBus!Next
    <2> QED
      BY <2>1, DBusTypes DEF DBusInv
  <1>2. PICK e \in BusEntry, c \in BusClient, id \in BusObj :
          /\ entry[p] = e /\ OwnerOf[p] = c /\ instance[p] = id
          /\ proxy[p] \in {"bound", "fault"}
          /\ proxy[p] = "bound" => Has(p, id) /\ id \in DBus!Instances(e) /\ p \in Live(e)
    <2>1. proxy[p] \in {"bound", "fault"} /\ entry[p] \in BusEntry /\ instance[p] \in BusObj
      BY <1>1 DEF DBus!DestroyProxy, DBusInv, BoundFits, DBus!TypeOK
    <2> QED
      BY <2>1, BoundIsLive, DBusAssumption
  <1>3. /\ up => DBus!Disconnected(e, c, id)
        /\ ~up => UNCHANGED <<up, clientList, shared, private, paths>>
        /\ UNCHANGED <<created, requests, replies, entry, instance>>
        /\ proxy'[p] = "released"
        /\ \A q \in BusProxy : q # p => proxy'[q] = proxy[q] \/ (proxy[q] = "bound" /\ proxy'[q] = "fault" /\ ~up')
        /\ ~up' => \A q \in BusProxy : proxy'[q] # "bound"
    BY <1>1, <1>2 DEF DBus!DestroyProxy, DBus!TypeOK
  <1> DEFINE last == up /\ DBus!LastOfClient(clientList[e][c], id)
             removed == last /\ (e \in GlobalEntry => shared[e].count = 1)
  <1>4. last => /\ clientList[e][c] # DBus!NoClient
                /\ clientList[e][c].id = id
                /\ proxy[p] = "fault" => \A f \in BusEntry : id \notin DBus!Instances(f)
                /\ e \in GlobalEntry => /\ proxy[p] = "bound" /\ shared[e].id = id
                                        /\ shared[e].count \in Nat /\ shared[e].count >= 1
                                        /\ shared[e].count = 1 => DBusCounted(e) = {c}
                                        /\ shared[e].count = 1 => Live(e) = {p}
    BY <1>2, LastReleased
  <1>5. id # NoObj /\ paths \subseteq BusObj
    BY <1>1, DBusAssumption DEF DBus!TypeOK
  <1>6. e \in GlobalEntry /\ last => shared[e].id = id /\ private[e] = {}
    BY <1>4 DEF DBusInv, SharedOrPrivate
  <1>7. e \notin GlobalEntry => shared[e].id = NoObj
    BY DEF DBusInv, SharedOrPrivate
  <1>8. /\ \A f \in BusEntry, d \in BusClient : f # e \/ d # c => clientList'[f][d] = clientList[f][d]
        /\ last => clientList'[e][c] = DBus!NoClient
        /\ ~last => /\ clientList[e][c] = DBus!NoClient => clientList'[e][c] = DBus!NoClient
                    /\ clientList'[e][c].id = clientList[e][c].id
    <2> DEFINE l == clientList[e][c]
               w == IF l = DBus!NoClient THEN l ELSE [l EXCEPT !.ref = @ - 1]
    <2>1. clientList \in [BusEntry -> [BusClient -> Record]] /\ l \in Record /\ DBus!NoClient \in Record
      BY <1>1 DEF DBus!TypeOK, Record, DBus!NoClient
    <2>2. w \in Record /\ w.id = l.id /\ (l = DBus!NoClient => w = DBus!NoClient)
      <3>1. l \in [id : BusObj \cup {NoObj}, ref : Int] /\ l.ref - 1 \in Int
        BY <2>1 DEF Record
      <3> HIDE DEF l
      <3> QED
        BY <3>1 DEF Record
    <2>3. CASE last
      <3>1. clientList' = [clientList EXCEPT ![e][c] = DBus!NoClient]
        BY <1>3, <2>3 DEF DBus!Disconnected
      <3> QED
        BY <2>1, <2>3, <3>1, TableUpdated
    <2>4. CASE up /\ ~last
      <3>1. clientList' = [clientList EXCEPT ![e][c] = w]
        BY <1>3, <2>4 DEF DBus!Disconnected
      <3> HIDE DEF w
      <3> QED
        BY <2>1, <2>2, <2>4, <3>1, TableUpdated
    <2>5. CASE ~up
      BY <1>3, <2>5
    <2> QED
      BY <2>3, <2>4, <2>5
  <1>9. /\ ~last => UNCHANGED <<up, shared, private, paths>>
        /\ last => DBus!RemoveInstance(e, id)
        /\ up' => up
    <2>1. CASE ~up
      BY <1>3, <2>1
    <2>2. CASE up
      BY <1>3, <2>2 DEF DBus!Disconnected, DBus!LastOfClient
    <2> QED
      BY <2>1, <2>2
  <1>10. /\ \A f \in BusEntry : f # e => shared'[f] = shared[f] /\ private'[f] = private[f]
         /\ e \in GlobalEntry => private'[e] = private[e]
         /\ e \in GlobalEntry /\ last =>
              shared'[e] = IF shared[e].count = 1 THEN [id |-> NoObj, count |-> 0]
                           ELSE [id |-> shared[e].id, count |-> shared[e].count - 1]
         /\ e \notin GlobalEntry => shared'[e] = shared[e]
         /\ e \notin GlobalEntry /\ last => private'[e] = private[e] \ {id}
    <2> DEFINE less == IF shared[e].count = 1 THEN [id |-> NoObj, count |-> 0]
                       ELSE [id |-> shared[e].id, count |-> shared[e].count - 1]
    <2>1. shared \in [BusEntry -> [id : BusObj \cup {NoObj}, count : Nat]] /\ private \in [BusEntry -> SUBSET BusObj]
      BY <1>1 DEF DBus!TypeOK
    <2>2. CASE ~last
      BY <1>9, <2>2
    <2>3. CASE last /\ e \in GlobalEntry
      <3>1. shared' = [shared EXCEPT ![e] = less] /\ private' = private
        BY <1>9, <2>3 DEF DBus!RemoveInstance
      <3> HIDE DEF less
      <3>2. shared'[e] = less /\ \A f \in BusEntry : f # e => shared'[f] = shared[f]
        BY <2>1, <3>1
      <3> QED
        BY <2>3, <3>1, <3>2 DEF less
    <2>4. CASE last /\ e \notin GlobalEntry
      <3>1. shared' = shared /\ private' = [private EXCEPT ![e] = private[e] \ {id}]
        BY <1>9, <2>4 DEF DBus!RemoveInstance
      <3> QED
        BY <2>1, <2>4, <3>1
    <2> QED
      BY <2>2, <2>3, <2>4
  <1>11. /\ DBus!Instances(e)' = IF removed THEN DBus!Instances(e) \ {id} ELSE DBus!Instances(e)
         /\ \A f \in BusEntry : f # e => DBus!Instances(f)' = DBus!Instances(f)
         /\ paths' = IF removed THEN paths \ {id} ELSE paths
    <2>1. ASSUME NEW f \in BusEntry, f # e PROVE DBus!Instances(f)' = DBus!Instances(f)
      BY <1>10, <2>1 DEF DBus!Instances
    <2>2. CASE ~last
      BY <1>9, <2>1, <2>2 DEF DBus!Instances
    <2>3. CASE last /\ e \in GlobalEntry
      <3>1. private'[e] = {} /\ private[e] = {} /\ shared[e].id = id
        BY <1>6, <1>10, <2>3
      <3>2. shared'[e].id = IF shared[e].count = 1 THEN NoObj ELSE id
        BY <1>10, <2>3, <3>1
      <3>3. paths' = IF id \in private'[e] \/ shared'[e].id = id THEN paths ELSE paths \ {id}
        BY <1>9, <2>3 DEF DBus!RemoveInstance
      <3>4. DBus!Instances(e)' = {shared'[e].id} \ {NoObj} /\ DBus!Instances(e) = {id}
        BY <1>5, <3>1 DEF DBus!Instances
      <3>5. CASE shared[e].count = 1
        BY <1>5, <2>1, <2>3, <3>1, <3>2, <3>3, <3>4, <3>5
      <3>6. CASE shared[e].count # 1
        BY <1>5, <2>1, <2>3, <3>1, <3>2, <3>3, <3>4, <3>6
      <3> QED
        BY <3>5, <3>6
    <2>4. CASE last /\ e \notin GlobalEntry
      <3>1. private'[e] = private[e] \ {id} /\ shared'[e].id = NoObj /\ shared[e].id = NoObj
        BY <1>7, <1>10, <2>4
      <3>2. paths' = IF id \in private'[e] \/ shared'[e].id = id THEN paths ELSE paths \ {id}
        BY <1>9, <2>4 DEF DBus!RemoveInstance
      <3> QED
        BY <1>5, <2>1, <2>4, <3>1, <3>2 DEF DBus!Instances
    <2> QED
      BY <2>2, <2>3, <2>4
  <1> HIDE DEF last, removed
  <1>12. ASSUME NEW q \in BusProxy, NEW x \in BusObj, Has(q, x)'
         PROVE  Has(q, x) /\ q # p
    <2>1. paths' \subseteq paths
      BY <1>11
    <2> QED
      BY <1>3, <1>12, <2>1 DEF Has
  <1>13. KnownIds'
    <2>1. paths' \subseteq created' /\ created' = created
      BY <1>3, <1>11 DEF DBusInv, KnownIds
    <2>2. \A r \in replies' : r.id \in created' \cup {NoObj}
      BY <1>3 DEF DBusInv, KnownIds
    <2>3. ASSUME NEW f \in BusEntry PROVE DBus!Instances(f)' \subseteq paths'
      <3>1. DBus!Instances(f) \subseteq paths
        BY DEF DBusInv, KnownIds
      <3>2. f # e /\ removed => id \notin DBus!Instances(f)
        <4>1. CASE proxy[p] = "bound"
          BY <1>2, <4>1 DEF DBusInv, Apart
        <4>2. CASE proxy[p] = "fault"
          BY <1>4, <4>2 DEF removed
        <4> QED
          BY <1>2, <4>1, <4>2
      <3>3. CASE f = e
        <4>1. DBus!Instances(f)' = IF removed THEN DBus!Instances(f) \ {id} ELSE DBus!Instances(f)
          BY <1>11, <3>3 DEF DBus!Instances
        <4> QED
          BY <1>11, <3>1, <4>1
      <3>4. CASE f # e
        BY <1>11, <3>1, <3>2, <3>4
      <3> QED
        BY <3>3, <3>4
    <2>4. \A f \in BusEntry : private'[f] \subseteq created' /\ shared'[f].id \in created' \cup {NoObj}
      BY <2>1, <2>3 DEF DBus!Instances
    <2> QED
      BY <2>1, <2>2, <2>3, <2>4 DEF KnownIds
  <1>14. SharedOrPrivate'
    <2>1. CASE last /\ e \in GlobalEntry
      <3>1. CASE shared[e].count = 1
        BY <1>6, <1>10, <2>1, <3>1 DEF DBusInv, SharedOrPrivate
      <3>2. CASE shared[e].count # 1
        <4>1. shared'[e].count # 0 /\ shared'[e].id = id
          BY <1>4, <1>6, <1>10, <2>1, <3>2
        <4> QED
          BY <1>5, <1>6, <1>10, <2>1, <4>1 DEF DBusInv, SharedOrPrivate
      <3> QED
        BY <3>1, <3>2
    <2>2. CASE ~last
      BY <1>9, <2>2 DEF DBusInv, SharedOrPrivate
    <2>3. CASE e \notin GlobalEntry
      BY <1>10, <2>3 DEF DBusInv, SharedOrPrivate
    <2> QED
      BY <2>1, <2>2, <2>3
  <1>15. Apart'
    <2>1. ASSUME NEW f \in BusEntry PROVE DBus!Instances(f)' \subseteq DBus!Instances(f)
      <3>1. f = e => DBus!Instances(f)' = IF removed THEN DBus!Instances(f) \ {id} ELSE DBus!Instances(f)
        BY <1>11 DEF DBus!Instances
      <3> QED
        BY <1>11, <3>1
    <2>2. ASSUME NEW f \in BusEntry, NEW g \in BusEntry, f # g
          PROVE  DBus!Instances(f)' \cap DBus!Instances(g)' = {}
      <3>1. DBus!Instances(f) \cap DBus!Instances(g) = {}
        BY <2>2 DEF DBusInv, Apart
      <3> QED
        BY <2>1, <3>1
    <2> QED
      BY <2>2 DEF Apart
  <1>16. RequestsFit'
    <2>1. ASSUME NEW d \in BusClient, NEW i \in DOMAIN requests[d]
          PROVE  proxy'[requests[d][i]] \in {"waiting", "released"}
      <3>1. requests[d][i] \in BusProxy /\ proxy[requests[d][i]] \in {"waiting", "released"}
        <4>1. requests[d] \in Seq(BusProxy)
          BY <1>1 DEF DBus!TypeOK
        <4> QED
          BY <4>1 DEF DBusInv, RequestsFit
      <3> QED
        BY <1>3, <3>1
    <2> QED
      BY <1>3, <2>1 DEF DBusInv, RequestsFit
  <1>17. RepliesFit'
    <2>1. \A r \in replies : r.proxy \in BusProxy
      BY <1>1 DEF DBus!TypeOK
    <2> QED
      BY <1>3, <2>1 DEF DBusInv, RepliesFit
  <1>18. BoundFits'
    <2>1. ASSUME NEW q \in BusProxy, proxy'[q] \in {"bound", "fault"} PROVE proxy[q] \in {"bound", "fault"}
      BY <1>3, <2>1
    <2> QED
      BY <1>3, <2>1 DEF DBusInv, BoundFits
  <1>19. Held'
    <2>1. ASSUME NEW q \in BusProxy, NEW x \in BusObj, Has(q, x), q # p
          PROVE  x \in DBus!Instances(entry[q])' /\ entry[q] \in BusEntry
      <3>1. PICK f \in BusEntry : f = entry[q] /\ x \in DBus!Instances(f)
        BY <2>1 DEF DBusInv, Held
      <3>2. f = e /\ removed => x # id
        <4>1. SUFFICES ASSUME f = e, removed, x = id PROVE FALSE
          OBVIOUS
        <4>2. q \in Live(e) /\ id \in DBus!Instances(e)
          BY <2>1, <3>1, <4>1 DEF Live
        <4>3. proxy[p] = "bound"
          BY <1>2, <1>4, <4>1, <4>2 DEF removed
        <4>4. e \in GlobalEntry
          BY <1>2, <2>1, <4>1, <4>3 DEF DBusInv, AloneUnlessShared
        <4>5. Live(e) = {p}
          BY <1>4, <4>1, <4>4 DEF removed
        <4> QED
          BY <2>1, <4>2, <4>5
      <3>3. x \in DBus!Instances(f)'
        <4>1. f = e => DBus!Instances(f)' = IF removed THEN DBus!Instances(f) \ {id} ELSE DBus!Instances(f)
          BY <1>11 DEF DBus!Instances
        <4> QED
          BY <1>11, <3>1, <3>2, <4>1
      <3>4. DBus!Instances(entry[q])' = DBus!Instances(f)'
        BY <1>3, <3>1 DEF DBus!Instances
      <3> QED
        BY <3>1, <3>3, <3>4
    <2> QED
      BY <1>3, <1>12, <2>1 DEF Held
  <1>20. AloneUnlessShared'
    BY <1>3, <1>12 DEF DBusInv, AloneUnlessShared
  <1>21. SharedCounts'
    <2>1. ASSUME NEW f \in BusEntry \cap GlobalEntry
          PROVE  Cardinality(DBusCounted(f)') <= shared'[f].count
      <3>1. Cardinality(DBusCounted(f)) <= shared[f].count /\ shared[f].count \in Nat
        BY <1>1 DEF DBusInv, SharedCounts, DBus!TypeOK
      <3>2. DBusCounted(f)' \subseteq DBusCounted(f)
        <4>1. ASSUME NEW d \in BusClient, clientList[f][d] = DBus!NoClient PROVE clientList'[f][d] = DBus!NoClient
          BY <1>8, <4>1
        <4> QED
          BY <4>1 DEF DBusCounted, DBus!NoClient
      <3>3. CASE ~(f = e /\ last)
        <4>1. shared'[f].count = shared[f].count
          BY <1>9, <1>10, <3>3
        <4>2. Cardinality(DBusCounted(f)') <= Cardinality(DBusCounted(f)) /\ Cardinality(DBusCounted(f)') \in Nat
              /\ Cardinality(DBusCounted(f)) \in Nat
          BY <3>2, FiniteRecords, Smaller
        <4> QED
          BY <3>1, <4>1, <4>2
      <3>4. CASE f = e /\ last
        <4>1. c \in DBusCounted(f)
          BY <1>4, <3>4 DEF DBusCounted
        <4>2. c \notin DBusCounted(f)'
          BY <1>8, <3>4 DEF DBusCounted, DBus!NoClient
        <4>3. Cardinality(DBusCounted(f)') <= Cardinality(DBusCounted(f)) - 1 /\ Cardinality(DBusCounted(f)') \in Nat
              /\ Cardinality(DBusCounted(f)) \in Nat
          BY <3>2, <4>1, <4>2, FiniteRecords, OneLess
        <4>4. shared'[f].count = shared[f].count - 1
          <5>1. shared[e].count = 1 => shared'[e].count = 0
            BY <1>10, <3>4
          <5>2. shared[e].count # 1 => shared'[e].count = shared[e].count - 1
            BY <1>10, <3>4
          <5> QED
            BY <3>4, <5>1, <5>2
        <4> QED
          BY <3>1, <4>3, <4>4
      <3> QED
        BY <3>3, <3>4
    <2> QED
      BY <2>1 DEF SharedCounts
  <1>22. ProxiesCounted'
    <2>1. ASSUME NEW f \in BusEntry \cap GlobalEntry
          PROVE  Cardinality(Live(f)') <= shared'[f].count
      <3>1. Cardinality(Live(f)) <= shared[f].count /\ shared[f].count \in Nat
        BY <1>1 DEF DBusInv, ProxiesCounted, DBus!TypeOK
      <3>2. Live(f)' \subseteq Live(f) \ {p}
        BY <1>3, <1>12 DEF Live
      <3>3. CASE f = e /\ last
        <4>1. p \in Live(f)
          BY <1>2, <1>4, <3>3
        <4>2. Cardinality(Live(f)') <= Cardinality(Live(f)) - 1 /\ Cardinality(Live(f)') \in Nat
              /\ Cardinality(Live(f)) \in Nat
          BY <3>2, <4>1, FiniteRecords, OneLess
        <4>3. shared'[f].count = shared[f].count - 1
          <5>1. shared[e].count = 1 => shared'[e].count = 0
            BY <1>10, <3>3
          <5>2. shared[e].count # 1 => shared'[e].count = shared[e].count - 1
            BY <1>10, <3>3
          <5> QED
            BY <3>3, <5>1, <5>2
        <4> QED
          BY <3>1, <4>2, <4>3
      <3>4. CASE ~(f = e /\ last)
        <4>1. Live(f)' \subseteq Live(f)
          BY <3>2
        <4>2. Cardinality(Live(f)') <= Cardinality(Live(f)) /\ Cardinality(Live(f)') \in Nat
              /\ Cardinality(Live(f)) \in Nat
          BY <4>1, FiniteRecords, Smaller
        <4>3. shared'[f].count = shared[f].count
          BY <1>9, <1>10, <3>4
        <4> QED
          BY <3>1, <4>2, <4>3
      <3> QED
        BY <3>3, <3>4
    <2> QED
      BY <2>1 DEF ProxiesCounted
  <1>23. FaultsGone'
    <2>1. ASSUME NEW q \in BusProxy, NEW f \in BusEntry, up', proxy'[q] = "fault"
          PROVE  instance[q] \notin DBus!Instances(f)'
      <3>1. proxy[q] = "fault" /\ up
        BY <1>3, <1>9, <2>1
      <3>2. instance[q] \notin DBus!Instances(f)
        BY <3>1 DEF DBusInv, FaultsGone
      <3>3. f = e => DBus!Instances(f)' = IF removed THEN DBus!Instances(f) \ {id} ELSE DBus!Instances(f)
        BY <1>11 DEF DBus!Instances
      <3> QED
        BY <1>11, <3>2, <3>3
    <2> QED
      BY <1>3, <2>1 DEF FaultsGone
  <1>24. RecordsFit'
    <2>1. ASSUME NEW f \in BusEntry, NEW d \in BusClient, clientList'[f][d] # DBus!NoClient
          PROVE  /\ clientList'[f][d].id \in BusObj
                 /\ f \in GlobalEntry => clientList'[f][d].id = shared'[f].id
      <3>1. clientList[f][d] # DBus!NoClient /\ clientList'[f][d].id = clientList[f][d].id /\ ~(f = e /\ d = c /\ last)
        BY <1>8, <2>1
      <3>2. /\ clientList[f][d].id \in BusObj
            /\ f \in GlobalEntry => clientList[f][d].id = shared[f].id
        BY <3>1 DEF DBusInv, RecordsFit
      <3>3. f \in GlobalEntry => shared'[f].id = shared[f].id
        <4>1. CASE f = e /\ last /\ f \in GlobalEntry
          <5>1. d \in DBusCounted(e) /\ d # c
            BY <3>1, <4>1 DEF DBusCounted
          <5>2. shared[e].count # 1
            BY <1>4, <4>1, <5>1
          <5> QED
            BY <1>10, <4>1, <5>2
        <4>2. CASE ~(f = e /\ last)
          BY <1>9, <1>10, <4>2
        <4> QED
          BY <4>1, <4>2
      <3> QED
        BY <3>1, <3>2, <3>3
    <2> QED
      BY <2>1 DEF RecordsFit, DBus!NoClient
  <1> QED
    BY <1>1, <1>13, <1>14, <1>15, <1>16, <1>17, <1>18, <1>19, <1>20, <1>21, <1>22, <1>23, <1>24 DEF DBusInv

LEMMA DBusInitInv == ASSUME DBus!Init PROVE DBusInv
  <1>1. DBus!TypeOK
    BY DEF DBus!Init, DBus!TypeOK, DBus!NoClient, DBus!ProxyStates
  <1>2. KnownIds /\ SharedOrPrivate /\ Apart /\ RequestsFit /\ RepliesFit /\ BoundFits
    BY DEF DBus!Init, KnownIds, SharedOrPrivate, Apart, RequestsFit, RepliesFit, BoundFits,
       DBus!Instances
  <1>3. \A p \in BusProxy, id \in BusObj : ~Has(p, id)
    BY DEF DBus!Init, Has
  <1>4. Held /\ AloneUnlessShared
    BY <1>3 DEF Held, AloneUnlessShared
  <1>5. ASSUME NEW e \in BusEntry PROVE Live(e) = {} /\ DBusCounted(e) = {} /\ shared[e].count = 0
    BY <1>3 DEF DBus!Init, Live, DBusCounted, DBus!NoClient
  <1>6. SharedCounts /\ ProxiesCounted
    <2>1. ASSUME NEW e \in BusEntry
          PROVE  Cardinality(DBusCounted(e)) <= shared[e].count /\ Cardinality(Live(e)) <= shared[e].count
      BY <1>5, FS_EmptySet
    <2> QED
      BY <2>1 DEF SharedCounts, ProxiesCounted
  <1>7. FaultsGone /\ RecordsFit
    BY DEF DBus!Init, FaultsGone, RecordsFit, DBus!NoClient
  <1> QED
    BY <1>1, <1>2, <1>4, <1>6, <1>7 DEF DBusInv

LEMMA DBusPreserves == ASSUME DBusInv, DBus!Next PROVE DBusInv'
  BY DBusAskPreserves, AutostartPreserves, RefusedPreserves, RejectedPreserves, GrantedPreserves,
     ReadReplyPreserves, DestroyPreserves, DiesPreserves DEF DBus!Next

LEMMA DBusServed == ASSUME DBusInv PROVE DBus!BoundServed /\ DBus!CountsCoverProxies
  <1>1. DBus!BoundServed
    <2>1. ASSUME NEW p \in BusProxy, proxy[p] = "bound"
          PROVE  instance[p] \in DBus!Instances(entry[p]) \cap paths
      <3>1. entry[p] \in BusEntry /\ instance[p] \in DBus!Instances(entry[p])
        BY <2>1, BoundIsLive
      <3> QED
        BY <3>1 DEF DBusInv, KnownIds
    <2> QED
      BY <2>1 DEF DBus!BoundServed
  <1>2. DBus!CountsCoverProxies
    <2>1. ASSUME NEW e \in BusEntry, e \in GlobalEntry
          PROVE  Cardinality({p \in BusProxy : proxy[p] = "bound" /\ entry[p] = e}) <= shared[e].count
      <3> DEFINE served == {p \in BusProxy : proxy[p] = "bound" /\ entry[p] = e}
      <3>1. served \subseteq Live(e)
        BY BoundIsLive
      <3> HIDE DEF served
      <3>2. Cardinality(served) <= Cardinality(Live(e)) /\ Cardinality(served) \in Nat
            /\ Cardinality(Live(e)) \in Nat
        BY <3>1, FiniteRecords, Smaller
      <3>3. Cardinality(Live(e)) <= shared[e].count /\ shared[e].count \in Nat
        BY <2>1 DEF DBusInv, ProxiesCounted, DBus!TypeOK
      <3>4. Cardinality(served) <= shared[e].count
        BY <3>2, <3>3
      <3> QED
        BY <3>4 DEF served
    <2> QED
      BY <2>1 DEF DBus!CountsCoverProxies, DBus!Cardinality, Cardinality
  <1> QED
    BY <1>1, <1>2

-----------------------------------------------------------------------------
(***************************************************************************)
(* The database file and its watcher: what the watcher knows is what is    *)
(* stored, unless the news or the loss of it is under way.                 *)
(***************************************************************************)
\* A file without tables holds nothing.
TablesHold == \A f \in 1..MaxFiles : ~disk[f].tables => disk[f].services = {}
ConnFits ==
  \A p \in Proc : IF conn[p].step \in {"closed", "failed"} THEN conn[p].file = 0
                  ELSE conn[p].file \in 1..MaxFiles
WatchedIsFile == watched \in {0, file} /\ (watched # 0 => enabled \in {"recheck", "on"})
\* What the listener has looked at and not yet watched is as it was, or there is a gap.
Looked ==
  /\ enabled \in {"dir", "above"} /\ ~gap => file = 0 /\ (enabled = "above" => ~dir)
  /\ enabled = "listed" /\ file = 0 => gap
  /\ notifying => enabled \notin {"off", "on"}
  /\ notifying /\ enabled \notin {"listed", "recheck"} => known = {}
\* A file that comes is heard of.
Noticed ==
  (enabled = "on" \/ (enabled = "recheck" /\ file = 0)) /\ watched = 0 =>
    \/ gap \/ "file" \in events
    \/ /\ dirWatch # "none" /\ monitored
       /\ file # 0 \/ (dirWatch = "above" /\ dir) => "dir" \in events
\* A file that has been listed or is watched is known, or an event tells of it.
Covered == file # 0 /\ (watched = file \/ enabled \in {"listed", "recheck"})
ListingCurrent == Covered /\ ~gap => "file" \in events \/ known = disk[file].services
NothingKnown == enabled = "recheck" /\ file = 0 /\ ~gap => "file" \in events \/ known = {}
FileInv ==
  /\ File!TypeOK /\ TablesHold /\ ConnFits /\ WatchedIsFile
  /\ Looked /\ Noticed /\ ListingCurrent /\ NothingKnown

LEMMA FileInitInv == File!Init => FileInv
  <1> SUFFICES ASSUME File!Init PROVE FileInv
    OBVIOUS
  <1> USE FileAssumption DEF File!Init
  <1>1. File!TypeOK
    <2>1. File!Empty \in [tables : BOOLEAN, services : SUBSET FileService]
      BY DEF File!Empty
    <2>2. File!Closed \in [step : File!Steps, file : 0..MaxFiles]
      BY DEF File!Closed, File!Steps
    <2>3. disk \in [1..MaxFiles -> [tables : BOOLEAN, services : SUBSET FileService]]
      BY <2>1
    <2>4. conn \in [Proc -> [step : File!Steps, file : 0..MaxFiles]]
      BY <2>2
    <2>5. /\ file \in 0..MaxFiles /\ watched \in 0..MaxFiles /\ fileChanges \in 0..MaxFileChanges
      OBVIOUS
    <2>6. dir \in BOOLEAN /\ gap \in BOOLEAN
      OBVIOUS
    <2> QED
      BY <2>3, <2>4, <2>5, <2>6 DEF File!TypeOK
  <1>2. TablesHold /\ ConnFits
    BY DEF TablesHold, ConnFits, File!Empty, File!Closed
  <1>3. WatchedIsFile /\ Looked /\ Noticed /\ ListingCurrent /\ NothingKnown
    BY DEF WatchedIsFile, Looked, Noticed, ListingCurrent, NothingKnown, Covered
  <1> QED
    BY <1>1, <1>2, <1>3 DEF FileInv

LEMMA FileCurrent == FileInv => File!KnownIsCurrent
  <1> SUFFICES ASSUME FileInv, enabled = "on", events = {}, file # 0, ~gap, conn[Listener].file = file
               PROVE  known = File!Names
    BY DEF File!KnownIsCurrent
  <1>1. watched = file
    BY DEF FileInv, WatchedIsFile, Noticed
  <1> QED
    BY <1>1 DEF FileInv, ListingCurrent, Covered, File!Names

\* A step that leaves the listener where it is keeps what it has heard of, when
\* neither the name nor what the file holds changes.
LEMMA ListenerKept ==
  ASSUME FileInv, events \subseteq events', gap => gap',
         UNCHANGED <<file, dir, enabled, notifying, watched, dirWatch, monitored, known>>,
         Covered => gap' \/ "file" \in events' \/ disk'[file].services = disk[file].services
  PROVE  WatchedIsFile' /\ Looked' /\ Noticed' /\ ListingCurrent' /\ NothingKnown'
  <1> USE DEF FileInv
  <1>1. WatchedIsFile' /\ Looked'
    BY DEF WatchedIsFile, Looked
  <1>2. Noticed' /\ NothingKnown'
    BY DEF Noticed, NothingKnown
  <1>3. ListingCurrent'
    BY DEF ListingCurrent, Covered
  <1> QED
    BY <1>1, <1>2, <1>3

LEMMA FilePreserves == ASSUME FileInv, [File!Next]_(File!vars) PROVE FileInv'
  <1> USE FileAssumption DEF FileInv
  <1> DEFINE DiskType == [tables : BOOLEAN, services : SUBSET FileService]
             ConnType == [step : File!Steps, file : 0..MaxFiles]
  <1>1. CASE UNCHANGED File!vars
    BY <1>1 DEF File!vars, File!files, File!watcher, File!TypeOK, TablesHold, ConnFits,
       WatchedIsFile, Looked, Noticed, ListingCurrent, NothingKnown, Covered
  <1>16. ASSUME NEW p \in Proc, File!MakeDirectory(p) PROVE FileInv'
    <2>1. /\ file = 0 /\ dir' = TRUE
          /\ events' = IF dirWatch = "above" THEN events \cup {"dir"} ELSE events
          /\ gap' = (gap \/ enabled = "above")
          /\ UNCHANGED <<file, disk, conn, enabled, notifying, watched, dirWatch, monitored, known,
                         reported, fileChanges>>
      BY <1>16 DEF File!MakeDirectory
    <2>2. File!TypeOK' /\ TablesHold' /\ ConnFits'
      BY <2>1 DEF File!TypeOK, TablesHold, ConnFits
    <2>3. WatchedIsFile' /\ Looked' /\ Noticed'
      BY <2>1 DEF WatchedIsFile, Looked, Noticed, File!TypeOK
    <2>4. ListingCurrent' /\ NothingKnown'
      BY <2>1 DEF ListingCurrent, NothingKnown, Covered
    <2> QED
      BY <2>2, <2>3, <2>4
  <1>2. ASSUME NEW p \in Proc, File!OpenFile(p) PROVE FileInv'
    <2>1. CASE file # 0
      <3>1. PICK s \in {"open", "drop"} :
              conn' = [conn EXCEPT ![p] = [step |-> s, file |-> file]]
        BY <1>2, <2>1 DEF File!OpenFile
      <3>2. UNCHANGED <<file, disk, dir, events, enabled, notifying, watched, dirWatch, monitored,
                        known, reported, gap, fileChanges>>
        BY <1>2, <2>1 DEF File!OpenFile
      <3>3. File!TypeOK'
        BY <3>1, <3>2 DEF File!TypeOK, File!Steps
      <3>4. TablesHold'
        BY <3>2 DEF TablesHold
      <3>5. ConnFits'
        BY <2>1, <3>1, <3>2 DEF ConnFits, File!TypeOK
      <3>6. WatchedIsFile' /\ Looked' /\ Noticed' /\ ListingCurrent' /\ NothingKnown'
        BY <3>2, ListenerKept
      <3> QED
        BY <3>3, <3>4, <3>5, <3>6
    <2>2. CASE file = 0
      <3>1. PICK f \in 1..MaxFiles :
              /\ f \notin File!Used
              /\ file' = f /\ dir
              /\ conn' = [conn EXCEPT ![p] = [step |-> "drop", file |-> f]]
              /\ events' = IF dirWatch = "dir" THEN events \cup {"dir"} ELSE events
              /\ gap' = (gap \/ enabled \in {"dir", "above"})
        BY <1>2, <2>2 DEF File!OpenFile
      <3>2. UNCHANGED <<disk, dir, enabled, notifying, watched, dirWatch, monitored, known, reported,
                        fileChanges>>
        BY <1>2, <2>2 DEF File!OpenFile
      <3>3. File!TypeOK'
        BY <3>1, <3>2 DEF File!TypeOK, File!Steps
      <3>4. TablesHold' /\ WatchedIsFile' /\ Looked'
        BY <2>2, <3>1, <3>2 DEF TablesHold, WatchedIsFile, Looked
      <3>5. ConnFits'
        BY <3>1 DEF ConnFits, File!TypeOK
      <3>6. Noticed'
        BY <2>2, <3>1, <3>2 DEF Noticed, File!TypeOK
      <3>7. ListingCurrent' /\ NothingKnown'
        <4>1. disk[f].services = {}
          BY <3>1 DEF File!Used, File!Empty
        <4>2. enabled = "listed" => gap
          BY <2>2 DEF Looked
        <4>3. watched = 0 /\ f # 0
          BY <2>2 DEF WatchedIsFile
        <4> QED
          BY <2>2, <3>1, <3>2, <4>1, <4>2, <4>3 DEF ListingCurrent, NothingKnown, Covered
      <3> QED
        BY <3>3, <3>4, <3>5, <3>6, <3>7
    <2> QED
      BY <2>1, <2>2
  \* A step that touches a file: the listener has an event of it or there is a gap.
  <1>3. ASSUME NEW f \in 1..MaxFiles, NEW d \in DiskType, disk' = [disk EXCEPT ![f] = d],
               ~d.tables => d.services = {}, File!Touched(f) \/ (d = disk[f] /\ UNCHANGED <<events, gap>>),
               UNCHANGED <<file, dir, enabled, notifying, watched, dirWatch, monitored, known>>
        PROVE  /\ TablesHold' /\ WatchedIsFile' /\ Looked' /\ Noticed' /\ ListingCurrent' /\ NothingKnown'
               /\ disk' \in [1..MaxFiles -> DiskType] /\ events' \subseteq {"file", "dir"} /\ gap' \in BOOLEAN
    <2>1. TablesHold' /\ disk' \in [1..MaxFiles -> DiskType]
      BY <1>3 DEF TablesHold, File!TypeOK
    <2>2. events \subseteq events' /\ events' \subseteq {"file", "dir"} /\ gap' \in BOOLEAN /\ (gap => gap')
      <3>1. CASE File!Touched(f)
        <4>1. events \subseteq events' /\ events' \subseteq {"file", "dir"}
          BY <3>1 DEF File!Touched, File!TypeOK
        <4>2. gap' \in BOOLEAN /\ (gap => gap')
          BY <3>1 DEF File!Touched
        <4> QED
          BY <4>1, <4>2
      <3>2. CASE UNCHANGED <<events, gap>>
        BY <3>2 DEF File!TypeOK
      <3> QED
        BY <1>3, <3>1, <3>2
    <2>3. Covered => gap' \/ "file" \in events' \/ disk'[file].services = disk[file].services
      <3> SUFFICES ASSUME Covered PROVE gap' \/ "file" \in events' \/ disk'[file].services = disk[file].services
        OBVIOUS
      <3>1. CASE f = file /\ File!Touched(f)
        BY <3>1 DEF Covered, File!Touched, File!Unwatched
      <3>2. CASE f # file
        BY <1>3, <3>2 DEF Covered, File!TypeOK
      <3>3. CASE d = disk[f]
        BY <1>3, <3>3 DEF Covered, File!TypeOK
      <3> QED
        BY <1>3, <3>1, <3>2, <3>3
    <2> QED
      BY <1>3, <2>1, <2>2, <2>3, ListenerKept
  <1>5. ASSUME NEW p \in Proc, File!DropTables(p) PROVE FileInv'
    <2> DEFINE f == conn[p].file
    <2>1. /\ conn[p].step = "drop" /\ f \in 1..MaxFiles
          /\ disk' = [disk EXCEPT ![f] = File!Empty]
          /\ conn' = [conn EXCEPT ![p].step = "create"]
          /\ UNCHANGED <<file, dir, enabled, notifying, watched, dirWatch, monitored, known, reported,
                         fileChanges>>
      BY <1>5 DEF File!DropTables, ConnFits
    <2>2. File!Touched(f) \/ (File!Empty = disk[f] /\ UNCHANGED <<events, gap>>)
      <3>1. disk[f] \in DiskType
        BY <2>1 DEF File!TypeOK
      <3>2. ~disk[f].tables => disk[f] = File!Empty
        BY <2>1, <3>1 DEF TablesHold, File!Empty
      <3> QED
        BY <1>5, <3>2 DEF File!DropTables
    <2>3. File!Empty \in DiskType /\ (~File!Empty.tables => File!Empty.services = {})
      BY DEF File!Empty
    <2>5. /\ TablesHold' /\ WatchedIsFile' /\ Looked' /\ Noticed' /\ ListingCurrent' /\ NothingKnown'
          /\ disk' \in [1..MaxFiles -> DiskType] /\ events' \subseteq {"file", "dir"} /\ gap' \in BOOLEAN
      BY <1>3, <2>1, <2>2, <2>3
    <2>7. conn' \in [Proc -> ConnType] /\ ConnFits'
      BY <2>1 DEF ConnFits, File!TypeOK, File!Steps
    <2> QED
      BY <2>1, <2>5, <2>7 DEF File!TypeOK
  <1>6. ASSUME NEW p \in Proc, File!CreateTables(p) PROVE FileInv'
    <2> DEFINE f == conn[p].file
               d == IF disk[f].tables THEN disk[f] ELSE [disk[f] EXCEPT !.tables = TRUE]
    <2>0. /\ conn[p].step = "create" /\ f \in 1..MaxFiles /\ disk[f] \in DiskType
      BY <1>6 DEF File!CreateTables, ConnFits, File!TypeOK
    <2>1. /\ disk' = [disk EXCEPT ![f] = d]
          /\ UNCHANGED <<file, dir, enabled, notifying, watched, dirWatch, monitored, known, reported,
                         fileChanges>>
      BY <1>6, <2>0 DEF File!CreateTables, File!TypeOK
    <2>2. File!Touched(f) \/ (d = disk[f] /\ UNCHANGED <<events, gap>>)
      BY <1>6 DEF File!CreateTables
    <2>3. d \in DiskType /\ (~d.tables => d.services = {})
      BY <2>0
    <2>5. /\ TablesHold' /\ WatchedIsFile' /\ Looked' /\ Noticed' /\ ListingCurrent' /\ NothingKnown'
          /\ disk' \in [1..MaxFiles -> DiskType] /\ events' \subseteq {"file", "dir"} /\ gap' \in BOOLEAN
      BY <1>3, <2>0, <2>1, <2>2, <2>3
    <2>7. conn' \in [Proc -> ConnType] /\ ConnFits'
      <3>1. CASE disk[f].tables
        <4>1. conn' = [conn EXCEPT ![p] = [step |-> "failed", file |-> 0]]
          BY <1>6, <3>1 DEF File!CreateTables
        <4> QED
          BY <2>1, <4>1 DEF ConnFits, File!TypeOK, File!Steps
      <3>2. CASE ~disk[f].tables
        <4>1. conn' = [conn EXCEPT ![p].step = "open"]
          BY <1>6, <3>2 DEF File!CreateTables
        <4> QED
          BY <2>0, <2>1, <4>1 DEF ConnFits, File!TypeOK, File!Steps
      <3> QED
        BY <3>1, <3>2
    <2> QED
      BY <2>1, <2>5, <2>7 DEF File!TypeOK
  <1>7. ASSUME NEW p \in Proc, File!Reopen(p) PROVE FileInv'
    <2>1. /\ conn' = [conn EXCEPT ![p] = File!Closed] /\ file = 0
          /\ UNCHANGED <<file, disk, dir, enabled, notifying, watched, dirWatch, monitored, events, known,
                         reported, gap, fileChanges>>
      BY <1>7 DEF File!Reopen, File!files, File!watcher
    <2>2. File!TypeOK'
      BY <2>1 DEF File!TypeOK, File!Closed, File!Steps
    <2>3. ConnFits'
      BY <2>1 DEF ConnFits, File!Closed, File!TypeOK
    <2>4. TablesHold'
      BY <2>1 DEF TablesHold
    <2>5. WatchedIsFile' /\ Looked' /\ Noticed' /\ ListingCurrent' /\ NothingKnown'
      BY <2>1, ListenerKept
    <2> QED
      BY <2>2, <2>3, <2>4, <2>5
  <1>8. ASSUME NEW p \in Proc, NEW services \in SUBSET FileService, File!Write(p, services), conn[p].file # 0
        PROVE FileInv'
    <2> DEFINE f == conn[p].file
               d == [disk[f] EXCEPT !.services = services]
    <2>0. f \in 1..MaxFiles /\ disk[f] \in DiskType /\ disk[f].tables
      BY <1>8 DEF File!Write, ConnFits, File!TypeOK
    <2>1. /\ disk' = [disk EXCEPT ![f] = d] /\ File!Touched(f)
          /\ UNCHANGED <<file, dir, conn, enabled, notifying, watched, dirWatch, monitored, known, reported>>
          /\ fileChanges' = fileChanges + 1 /\ fileChanges < MaxFileChanges
      BY <1>8 DEF File!Write
    <2>3. d \in DiskType /\ (~d.tables => d.services = {})
      BY <2>0
    <2>5. /\ TablesHold' /\ WatchedIsFile' /\ Looked' /\ Noticed' /\ ListingCurrent' /\ NothingKnown'
          /\ disk' \in [1..MaxFiles -> DiskType] /\ events' \subseteq {"file", "dir"} /\ gap' \in BOOLEAN
      BY <1>3, <2>0, <2>1, <2>3
    <2>7. ConnFits'
      BY <2>1 DEF ConnFits
    <2> QED
      BY <2>1, <2>5, <2>7 DEF File!TypeOK
  <1>9. ASSUME File!DeleteFile PROVE FileInv'
    <2>1. /\ file # 0 /\ file' = 0 /\ fileChanges < MaxFileChanges /\ fileChanges' = fileChanges + 1
          /\ watched' = 0
          /\ events \subseteq events' /\ events' \subseteq {"file", "dir"}
          /\ watched # 0 => "file" \in events'
          /\ gap' = (gap \/ File!Unwatched)
          /\ UNCHANGED <<disk, dir, conn, enabled, notifying, dirWatch, monitored, known, reported>>
      BY <1>9 DEF File!DeleteFile, WatchedIsFile, File!TypeOK
    <2>2. gap' \in BOOLEAN /\ (gap => gap')
      BY <2>1
    <2>3. File!TypeOK' /\ TablesHold' /\ ConnFits'
      BY <2>1, <2>2 DEF File!TypeOK, TablesHold, ConnFits
    <2>4. WatchedIsFile' /\ Looked' /\ Noticed'
      BY <2>1 DEF WatchedIsFile, Looked, Noticed, File!Unwatched
    <2>5. ListingCurrent' /\ NothingKnown'
      BY <2>1 DEF ListingCurrent, NothingKnown, Covered, WatchedIsFile, File!Unwatched
    <2> QED
      BY <2>3, <2>4, <2>5
  <1>10. ASSUME File!AskNotifications PROVE FileInv'
    <2> USE <1>10 DEF File!AskNotifications, File!files
    <2>1. File!TypeOK' /\ TablesHold' /\ ConnFits'
      BY DEF File!TypeOK, TablesHold, ConnFits
    <2>2. WatchedIsFile' /\ Looked' /\ Noticed' /\ ListingCurrent' /\ NothingKnown'
      BY DEF WatchedIsFile, Looked, Noticed, ListingCurrent, NothingKnown, Covered
    <2> QED
      BY <2>1, <2>2
  <1>17. ASSUME NEW previous \in {"none", "dir", "above"}, File!Sought(previous),
                enabled = "seek" \/ (enabled = "on" /\ previous = dirWatch)
         PROVE  /\ dirWatch' \in {dirWatch, "none"}
                /\ monitored' \in BOOLEAN /\ (file = 0 /\ monitored => monitored')
                /\ \/ enabled' = "found" /\ file # 0
                   \/ enabled' \in {"dir", "above"} /\ file = 0 /\ (enabled' = "above" => ~dir)
                   \/ /\ enabled' = enabled /\ file = 0 /\ dirWatch' = dirWatch
                      /\ enabled = "on" /\ (dirWatch = "above" => ~dir) /\ dirWatch # "none"
                   \/ enabled' = "seek" /\ enabled = "seek" /\ dirWatch' = dirWatch
    BY <1>17 DEF File!Sought, File!ClosestParent, File!TypeOK
  <1>18. ASSUME File!Seek PROVE FileInv'
    <2>1. /\ enabled = "seek" /\ File!Sought("none")
          /\ UNCHANGED <<file, disk, dir, conn, notifying, watched, events, known, reported, gap, fileChanges>>
      BY <1>18 DEF File!Seek, File!files
    <2>2. /\ dirWatch' \in {dirWatch, "none"} /\ monitored' \in BOOLEAN
          /\ \/ enabled' \in {"found", "seek"}
             \/ enabled' \in {"dir", "above"} /\ file = 0 /\ (enabled' = "above" => ~dir)
      BY <1>17, <2>1
    <2>3. File!TypeOK' /\ TablesHold' /\ ConnFits'
      BY <2>1, <2>2 DEF File!TypeOK, TablesHold, ConnFits
    <2>4. WatchedIsFile' /\ Looked' /\ Noticed' /\ ListingCurrent' /\ NothingKnown'
      BY <2>1, <2>2 DEF WatchedIsFile, Looked, Noticed, ListingCurrent, NothingKnown, Covered
    <2> QED
      BY <2>3, <2>4
  <1>19. ASSUME File!WatchDirectory PROVE FileInv'
    <2>1. /\ enabled \in {"dir", "above"} /\ dirWatch' = enabled /\ monitored' = TRUE
          /\ enabled' = (IF notifying THEN "recheck" ELSE "on")
          /\ UNCHANGED <<file, disk, dir, conn, notifying, watched, events, known, reported, gap, fileChanges>>
      BY <1>19 DEF File!WatchDirectory, File!files, File!Done
    <2>2. File!TypeOK' /\ TablesHold' /\ ConnFits'
      BY <2>1 DEF File!TypeOK, TablesHold, ConnFits
    <2>3. WatchedIsFile' /\ Looked' /\ Noticed'
      BY <2>1 DEF WatchedIsFile, Looked, Noticed
    <2>4. ListingCurrent' /\ NothingKnown'
      BY <2>1 DEF ListingCurrent, NothingKnown, Covered, Looked, WatchedIsFile
    <2> QED
      BY <2>2, <2>3, <2>4
  <1>20. ASSUME File!ReportServices PROVE FileInv'
    <2>1. /\ enabled = "found" /\ enabled' = "again"
          /\ reported' = IF File!Readable THEN reported \cup File!Names ELSE reported
          /\ UNCHANGED <<file, disk, dir, conn, notifying, watched, dirWatch, monitored, events, known, gap,
                         fileChanges>>
      BY <1>20 DEF File!ReportServices, File!files
    <2>2. reported' \subseteq FileService
      BY <2>1 DEF File!Readable, File!Names, File!TypeOK, ConnFits
    <2>3. File!TypeOK' /\ TablesHold' /\ ConnFits'
      BY <2>1, <2>2 DEF File!TypeOK, TablesHold, ConnFits
    <2>4. WatchedIsFile' /\ Looked' /\ Noticed' /\ ListingCurrent' /\ NothingKnown'
      BY <2>1 DEF WatchedIsFile, Looked, Noticed, ListingCurrent, NothingKnown, Covered
    <2> QED
      BY <2>3, <2>4
  <1>11. ASSUME File!ListKnown PROVE FileInv'
    <2>1. /\ enabled' = "listed" /\ known' = (IF File!Readable THEN File!Names ELSE {})
          /\ gap' = (file = 0 \/ conn[Listener].file # file)
          /\ conn[Listener].step \in {"open", "failed"}
          /\ reported' \in {known', reported}
          /\ UNCHANGED <<file, disk, dir, conn, notifying, watched, dirWatch, monitored, events, fileChanges>>
          /\ enabled = "asked"
      BY <1>11 DEF File!ListKnown, File!files
    <2>2. File!TypeOK'
      <3>1. known' \subseteq FileService
        BY <2>1 DEF File!Readable, File!Names, File!TypeOK, ConnFits
      <3> QED
        BY <2>1, <3>1 DEF File!TypeOK
    <2>3. TablesHold' /\ ConnFits'
      BY <2>1 DEF TablesHold, ConnFits
    <2>4. WatchedIsFile' /\ Looked' /\ Noticed' /\ NothingKnown'
      BY <2>1 DEF WatchedIsFile, Looked, Noticed, NothingKnown
    <2>5. ListingCurrent'
      BY <2>1 DEF ListingCurrent, Covered, File!Readable, File!Names, ConnFits, TablesHold, File!TypeOK
    <2> QED
      BY <2>2, <2>3, <2>4, <2>5
  <1>12. ASSUME File!StartWatching PROVE FileInv'
    <2>1. /\ enabled = "listed" /\ watched' = file
          /\ enabled' = (IF notifying THEN "recheck" ELSE "on")
          /\ UNCHANGED <<file, disk, dir, conn, notifying, dirWatch, monitored, events, known, reported, gap,
                         fileChanges>>
      BY <1>12 DEF File!StartWatching, File!AddPath, File!files, File!Done
    <2>2. File!TypeOK' /\ TablesHold' /\ ConnFits'
      BY <2>1 DEF File!TypeOK, TablesHold, ConnFits
    <2>3. WatchedIsFile' /\ Looked' /\ Noticed' /\ ListingCurrent' /\ NothingKnown'
      BY <2>1 DEF WatchedIsFile, Looked, Noticed, ListingCurrent, NothingKnown, Covered
    <2> QED
      BY <2>2, <2>3
  <1>13. ASSUME File!NotifyChanges PROVE FileInv'
    <2>1. /\ enabled = "on" /\ "file" \in events /\ events' = events \ {"file"}
          /\ notifying' = (file = 0)
          /\ UNCHANGED <<file, disk, dir, conn, watched, dirWatch, monitored, fileChanges>>
      BY <1>13 DEF File!NotifyChanges, File!files
    <2>2. TablesHold' /\ ConnFits'
      BY <2>1 DEF TablesHold, ConnFits
    <2>3. CASE file = 0
      <3>1. known' = {} /\ enabled' = "seek" /\ UNCHANGED <<reported, gap>>
        BY <1>13, <2>3 DEF File!NotifyChanges
      <3>2. File!TypeOK'
        BY <2>1, <3>1 DEF File!TypeOK
      <3>3. WatchedIsFile' /\ Looked' /\ Noticed' /\ ListingCurrent' /\ NothingKnown'
        BY <2>1, <2>3, <3>1 DEF WatchedIsFile, Looked, Noticed, ListingCurrent, NothingKnown, Covered
      <3> QED
        BY <2>2, <3>2, <3>3
    <2>4. CASE file # 0
      <3>1. enabled' = "recheck" /\ notifying' = FALSE
        BY <1>13, <2>1, <2>4 DEF File!NotifyChanges
      <3>2. WatchedIsFile' /\ Looked' /\ Noticed' /\ NothingKnown'
        BY <2>1, <2>4, <3>1 DEF WatchedIsFile, Looked, Noticed, NothingKnown
      <3>3. CASE File!Readable
        <4>1. /\ known' = File!Names /\ reported' = (reported \cup (File!Names \ known)) \ (known \ File!Names)
              /\ gap' = (conn[Listener].file # file)
          BY <1>13, <2>4, <3>3 DEF File!NotifyChanges
        <4>2. File!Names \subseteq FileService
          BY <3>3 DEF File!Readable, File!Names, File!TypeOK, ConnFits
        <4>3. File!TypeOK'
          BY <2>1, <3>1, <4>1, <4>2 DEF File!TypeOK
        <4>4. ListingCurrent'
          BY <2>1, <4>1 DEF ListingCurrent, Covered, File!Names
        <4> QED
          BY <2>2, <3>2, <4>3, <4>4
      <3>4. CASE ~File!Readable
        <4>1. gap' = TRUE /\ UNCHANGED <<known, reported>>
          BY <1>13, <2>4, <3>4 DEF File!NotifyChanges
        <4>2. File!TypeOK' /\ ListingCurrent'
          BY <2>1, <3>1, <4>1 DEF File!TypeOK, ListingCurrent
        <4> QED
          BY <2>2, <3>2, <4>2
      <3> QED
        BY <3>3, <3>4
    <2> QED
      BY <2>3, <2>4
  <1>21. ASSUME File!WatchAgain PROVE FileInv'
    <2>1. /\ enabled = "recheck" /\ enabled' = "on" /\ notifying' = FALSE
          /\ watched' = IF watched = 0 THEN file ELSE watched
          /\ UNCHANGED <<file, disk, dir, conn, dirWatch, monitored, events, known, reported, gap, fileChanges>>
      BY <1>21 DEF File!WatchAgain, File!files
    <2>2. File!TypeOK' /\ TablesHold' /\ ConnFits'
      BY <2>1 DEF File!TypeOK, TablesHold, ConnFits
    <2>3. WatchedIsFile' /\ Looked' /\ Noticed' /\ NothingKnown'
      BY <2>1 DEF WatchedIsFile, Looked, Noticed, NothingKnown
    <2>4. ListingCurrent'
      BY <2>1 DEF ListingCurrent, Covered
    <2> QED
      BY <2>2, <2>3, <2>4
  <1>14. ASSUME File!DirectoryChanged PROVE FileInv'
    <2>1. /\ enabled = "on" /\ events' = events \ {"dir"}
          /\ UNCHANGED <<file, disk, dir, conn, notifying, watched, known, reported, gap, fileChanges>>
      BY <1>14 DEF File!DirectoryChanged, File!files
    <2>2. TablesHold' /\ ConnFits'
      BY <2>1 DEF TablesHold, ConnFits
    <2>3. CASE watched # 0 \/ ~monitored
      <3>1. UNCHANGED <<enabled, dirWatch, monitored>>
        BY <1>14, <2>3 DEF File!DirectoryChanged
      <3>2. File!TypeOK'
        BY <2>1, <3>1 DEF File!TypeOK
      <3>3. WatchedIsFile' /\ Looked' /\ Noticed' /\ ListingCurrent' /\ NothingKnown'
        BY <2>1, <2>3, <3>1 DEF WatchedIsFile, Looked, Noticed, ListingCurrent, NothingKnown, Covered
      <3> QED
        BY <2>2, <3>2, <3>3
    <2>4. CASE watched = 0 /\ monitored
      <3>1. File!Sought(dirWatch) /\ dirWatch \in {"none", "dir", "above"}
        BY <1>14, <2>4 DEF File!DirectoryChanged, File!TypeOK
      <3>2. /\ dirWatch' \in {dirWatch, "none"}
            /\ monitored' \in BOOLEAN /\ (file = 0 /\ monitored => monitored')
            /\ \/ enabled' = "found"
               \/ enabled' \in {"dir", "above"} /\ file = 0 /\ (enabled' = "above" => ~dir)
               \/ /\ enabled' = enabled /\ file = 0 /\ dirWatch' = dirWatch
                  /\ (dirWatch = "above" => ~dir) /\ dirWatch # "none"
        BY <1>17, <2>1, <3>1
      <3>3. File!TypeOK'
        BY <2>1, <3>2 DEF File!TypeOK
      <3>4. WatchedIsFile' /\ Looked' /\ Noticed'
        BY <2>1, <2>4, <3>2 DEF WatchedIsFile, Looked, Noticed
      <3>5. ListingCurrent' /\ NothingKnown'
        BY <2>1, <2>4, <3>2 DEF ListingCurrent, NothingKnown, Covered
      <3> QED
        BY <2>2, <3>3, <3>4, <3>5
    <2> QED
      BY <2>3, <2>4
  <1>15. ASSUME NEW p \in Proc, NEW s \in FileService, File!RegisterService(p, s) \/ File!UnregisterService(p, s)
         PROVE FileInv'
    <2>1. conn[p].file # 0 => disk[conn[p].file].services \subseteq FileService
      BY DEF ConnFits, File!TypeOK
    <2> QED
      BY <1>8, <1>15, <2>1 DEF File!RegisterService, File!UnregisterService
  <1> QED
    BY <1>1, <1>2, <1>5, <1>6, <1>7, <1>9, <1>10, <1>11, <1>12, <1>13, <1>14, <1>15, <1>16, <1>18, <1>19,
       <1>20, <1>21 DEF File!Next
-----------------------------------------------------------------------------
(***************************************************************************)
(* The managers of a scope: a plugin that is registered is installed, or   *)
(* somebody is about to see to it.                                         *)
(***************************************************************************)
PackageType == [name : ServiceName \cup {""}, ipc : BOOLEAN, location : Plugin \cup {""}]
LocalType == [package : PackageType, paths : SUBSET Plugin, fresh : BOOLEAN]

FreshGenerated ==
  /\ fresh \in [Manager!Scope -> SUBSET Package]
  /\ \A s \in Manager!Scope : fresh[s] \subseteq Generated[s]
UnwrittenFresh ==
  \A s \in Manager!Scope :
    s \notin writable \/ (\A m \in Application : ScopeOf[m] # s) => managerRows[s] \subseteq fresh[s]
LocalFits ==
  \A m \in Application :
    /\ pc[m] \in {"register", "load", "initialise"} => local[m].package \in Package
    /\ pc[m] = "uninstall" =>
         \A q \in Package :
           ~q.ipc /\ q.location \in local[m].paths => q.name = local[m].package.name
    /\ pc[m] \in {"load", "initialise"} /\ local[m].fresh =>
         \E s \in Manager!Scope : local[m].package \in Generated[s]
    /\ pc[m] = "initialise" => local[m].fresh /\ ~local[m].package.ipc
ManagerInv == Manager!TypeOK /\ FreshGenerated /\ UnwrittenFresh /\ LocalFits /\ Manager!RegisteredIsInstalled

LEMMA ManagerCounted ==
  ASSUME NEW max \in Nat, NEW n \in 0..max, n < max PROVE n + 1 \in 0..max
  OBVIOUS

LEMMA ManagerInitInv == Manager!Init => ManagerInv
  <1> SUFFICES ASSUME Manager!Init PROVE ManagerInv
    OBVIOUS
  <1> USE ManagerAssumption DEF Manager!Init
  <1>1. Manager!TypeOK
    <2>1. pc \in [Application -> Manager!Labels] /\ error \in [Application -> Manager!Errors]
      BY DEF Manager!Labels, Manager!Errors
    <2>2. Manager!Idle \in LocalType
      BY DEF Manager!Idle, Manager!NoPackage, LocalType, PackageType
    <2>3. local \in [Application -> LocalType]
      BY <2>2
    <2>4. \A s \in Manager!Scope : fresh[s] \subseteq managerRows[s]
      OBVIOUS
    <2>5. writable \subseteq Manager!Scope /\ operations \in 0..MaxOperations
      BY DEF Manager!Scope
    <2> QED
      BY <2>1, <2>3, <2>4, <2>5 DEF Manager!TypeOK, LocalType, PackageType
  <1>2. FreshGenerated /\ UnwrittenFresh
    BY DEF FreshGenerated, UnwrittenFresh, Manager!Scope
  <1>3. LocalFits
    BY DEF LocalFits
  <1>4. Manager!RegisteredIsInstalled
    BY DEF Manager!RegisteredIsInstalled
  <1> QED
    BY <1>1, <1>2, <1>3, <1>4 DEF ManagerInv

LEMMA ManagerTypes ==
  ASSUME Manager!TypeOK, FreshGenerated, LocalFits, Manager!Next PROVE Manager!TypeOK'
  <1> USE ManagerAssumption DEF Manager!TypeOK
  <1>0. Manager!Idle \in LocalType
    BY DEF Manager!Idle, Manager!NoPackage, LocalType, PackageType
  <1>9. operations < MaxOperations /\ operations' = operations + 1 => operations' \in 0..MaxOperations
    <2>1. operations \in 0..MaxOperations
      OBVIOUS
    <2>2. MaxOperations \in Nat
      OBVIOUS
    <2> HIDE ManagerAssumption DEF Manager!TypeOK
    <2> QED
      BY <2>1, <2>2, ManagerCounted
  <1>1. ASSUME NEW m \in Application, NEW r \in BOOLEAN, NEW e \in Manager!Errors, Manager!Return(m, r, e)
        PROVE /\ pc' \in [Application -> Manager!Labels] /\ local' \in [Application -> LocalType]
              /\ error' \in [Application -> Manager!Errors] /\ result' \in [Application -> BOOLEAN]
    BY <1>0, <1>1 DEF Manager!Return, Manager!Goto, Manager!SetError, Manager!Labels, LocalType,
       PackageType
  <1>2. ASSUME NEW m \in Application, NEW l \in LocalType, NEW label \in Manager!Labels, Manager!Goto(m, label, l)
        PROVE pc' \in [Application -> Manager!Labels] /\ local' \in [Application -> LocalType]
    BY <1>2 DEF Manager!Goto, LocalType, PackageType
  <1>3. ASSUME NEW m \in Application, NEW l \in LocalType, NEW label \in Manager!Labels, Manager!Begin(m, label, l)
        PROVE Manager!TypeOK'
    <2>1. pc' \in [Application -> Manager!Labels] /\ local' \in [Application -> LocalType]
      BY <1>2, <1>3 DEF Manager!Begin
    <2>2. error' \in [Application -> Manager!Errors]
      BY <1>3 DEF Manager!Begin, Manager!SetError, Manager!Errors
    <2>3. operations' \in 0..MaxOperations
      BY <1>3, <1>9 DEF Manager!Begin
    <2> QED
      BY <1>3, <2>1, <2>2, <2>3 DEF Manager!Begin, Manager!stores, LocalType, PackageType
  <1>4. \A m \in Application : local[m] \in LocalType
    BY DEF LocalType, PackageType
  <1>5. ASSUME NEW m \in Application, NEW p \in Package PROVE [Manager!Idle EXCEPT !.package = p] \in LocalType
    BY <1>0 DEF LocalType, PackageType
  <1>6. ASSUME NEW s \in Manager!Scope, NEW n, Manager!Unregistered(s, n)
        PROVE /\ managerRows' \in [Manager!Scope -> SUBSET Package]
              /\ \A t \in Manager!Scope : fresh'[t] \subseteq managerRows'[t]
    BY <1>6 DEF Manager!Unregistered, FreshGenerated
  <1> USE DEF Manager!stores
  <1>a. ASSUME NEW m \in Application, NEW p \in Package, Manager!AddService(m, p) PROVE Manager!TypeOK'
    <2>1. "register" \in Manager!Labels
      BY DEF Manager!Labels
    <2> QED
      BY <1>a, <1>3, <1>5, <2>1 DEF Manager!AddService
  <1>b. ASSUME NEW m \in Application, NEW p \in Package, Manager!LoadInterface(m, p) PROVE Manager!TypeOK'
    <2>1. "load" \in Manager!Labels
      BY DEF Manager!Labels
    <2>2. [Manager!Idle EXCEPT !.package = p, !.fresh = \E s \in Manager!Scope : p \in fresh[s]] \in LocalType
      BY DEF LocalType, PackageType, Manager!Idle
    <2> QED
      BY <1>b, <1>3, <2>2, <2>1 DEF Manager!LoadInterface
  <1>c. ASSUME NEW m \in Application, NEW n \in ServiceName, Manager!RemoveService(m, n) PROVE Manager!TypeOK'
    <2>1. "uninstall" \in Manager!Labels
      BY DEF Manager!Labels
    <2>2. Manager!PathsOf(m, n) \subseteq Plugin
      <3>1. Manager!Visible(m) \subseteq Package
        BY DEF Manager!Visible, Manager!Scope
      <3>2. \A q \in Manager!Visible(m) : q.location \in Plugin
        BY <3>1
      <3> HIDE ManagerAssumption DEF Manager!TypeOK
      <3> QED
        BY <3>2 DEF Manager!PathsOf
    <2>3. [Manager!Idle EXCEPT !.package.name = n, !.paths = Manager!PathsOf(m, n)] \in LocalType
      BY <2>2 DEF LocalType, PackageType, Manager!Idle, Manager!NoPackage
    <2> QED
      BY <1>c, <1>3, <2>3, <2>1 DEF Manager!RemoveService
  <1>d. ASSUME NEW m \in Application, Manager!AddInvalidXml(m) PROVE Manager!TypeOK'
    <2>1. "InvalidServiceXml" \in Manager!Errors
      BY DEF Manager!Errors
    <2>2. /\ pc' \in [Application -> Manager!Labels] /\ local' \in [Application -> LocalType]
          /\ error' \in [Application -> Manager!Errors] /\ result' \in [Application -> BOOLEAN]
      BY <1>d, <1>1, <2>1 DEF Manager!AddInvalidXml
    <2>3. operations' \in 0..MaxOperations
      BY <1>d, <1>9 DEF Manager!AddInvalidXml
    <2> QED
      BY <1>d, <2>2, <2>3 DEF Manager!AddInvalidXml, LocalType, PackageType
  <1>e. ASSUME NEW m \in Application, Manager!Register(m) PROVE Manager!TypeOK'
    <2>1. "install" \in Manager!Labels /\ "NoError" \in Manager!Errors
      BY DEF Manager!Labels, Manager!Errors
    <2>2. /\ pc' \in [Application -> Manager!Labels] /\ local' \in [Application -> LocalType]
          /\ error' \in [Application -> Manager!Errors] /\ result' \in [Application -> BOOLEAN]
      BY <1>e, <1>1, <1>2, <1>4, <2>1 DEF Manager!Register
    <2>3. managerRows' \in [Manager!Scope -> SUBSET Package] /\ \A s \in Manager!Scope : fresh'[s] \subseteq managerRows'[s]
      BY <1>e DEF Manager!Register, LocalFits
    <2> QED
      BY <1>e, <2>2, <2>3 DEF Manager!Register, LocalType, PackageType
  <1>f. ASSUME NEW m \in Application, Manager!RegisterFails(m) PROVE Manager!TypeOK'
    <2>1. (IF local[m].package.ipc THEN "NoError" ELSE "StorageError") \in Manager!Errors
      BY DEF Manager!Errors
    <2> QED
      BY <1>f, <1>1, <2>1 DEF Manager!RegisterFails, LocalType, PackageType
  <1>g. ASSUME NEW m \in Application, Manager!Install(m) PROVE Manager!TypeOK'
    <2>1. "undo" \in Manager!Labels /\ "NoError" \in Manager!Errors
      BY DEF Manager!Labels, Manager!Errors
    <2>2. /\ pc' \in [Application -> Manager!Labels] /\ local' \in [Application -> LocalType]
          /\ error' \in [Application -> Manager!Errors] /\ result' \in [Application -> BOOLEAN]
      BY <1>g, <1>1, <1>2, <1>4, <2>1 DEF Manager!Install, Manager!InstallPlugin
    <2>3. installed' \subseteq Plugin
      BY <1>g DEF Manager!Install, Manager!InstallPlugin
    <2> QED
      BY <1>g, <2>2, <2>3 DEF Manager!Install, LocalType, PackageType
  <1>h. ASSUME NEW m \in Application, Manager!UndoRegistration(m) PROVE Manager!TypeOK'
    <2>1. "PluginLoadingFailed" \in Manager!Errors
      BY DEF Manager!Errors
    <2>2. /\ pc' \in [Application -> Manager!Labels] /\ local' \in [Application -> LocalType]
          /\ error' \in [Application -> Manager!Errors] /\ result' \in [Application -> BOOLEAN]
      BY <1>h, <1>1, <2>1 DEF Manager!UndoRegistration
    <2> QED
      BY <1>h, <1>6, <2>2 DEF Manager!UndoRegistration, LocalType, PackageType
  <1>i. ASSUME NEW m \in Application, Manager!Uninstall(m) PROVE Manager!TypeOK'
    <2>1. "unregister" \in Manager!Labels
      BY DEF Manager!Labels
    <2>2. pc' \in [Application -> Manager!Labels] /\ local' \in [Application -> LocalType]
      BY <1>i, <1>2, <1>4, <2>1 DEF Manager!Uninstall
    <2> QED
      BY <1>i, <2>2 DEF Manager!Uninstall, LocalType, PackageType
  <1>j. ASSUME NEW m \in Application, Manager!Unregister(m) PROVE Manager!TypeOK'
    <2>1. {"ComponentNotFound", "StorageError", "NoError"} \subseteq Manager!Errors
      BY DEF Manager!Errors
    <2>2. /\ pc' \in [Application -> Manager!Labels] /\ local' \in [Application -> LocalType]
          /\ error' \in [Application -> Manager!Errors] /\ result' \in [Application -> BOOLEAN]
      BY <1>j, <1>1, <2>1 DEF Manager!Unregister
    <2>3. /\ managerRows' \in [Manager!Scope -> SUBSET Package]
          /\ \A t \in Manager!Scope : fresh'[t] \subseteq managerRows'[t]
      BY <1>j, <1>6 DEF Manager!Unregister
    <2> QED
      BY <1>j, <2>2, <2>3 DEF Manager!Unregister, LocalType, PackageType
  <1>k. ASSUME NEW m \in Application, Manager!Load(m) PROVE Manager!TypeOK'
    <2>1. /\ {"InvalidServiceLocation", "PluginLoadingFailed", "NoError"} \subseteq Manager!Errors
          /\ {"create", "initialise"} \subseteq Manager!Labels
      BY DEF Manager!Errors, Manager!Labels
    <2>2. /\ pc' \in [Application -> Manager!Labels] /\ local' \in [Application -> LocalType]
          /\ error' \in [Application -> Manager!Errors] /\ result' \in [Application -> BOOLEAN]
      BY <1>k, <1>1, <1>2, <1>4, <2>1 DEF Manager!Load
    <2>3. pc[m] = "load" => semaphore' \subseteq ServiceName
      <3>1. pc[m] = "load" => local[m].package.name \in ServiceName
        BY DEF LocalFits
      <3> QED
        BY <1>k, <3>1 DEF Manager!Load
    <2> QED
      BY <1>k, <2>2, <2>3 DEF Manager!Load, LocalType, PackageType
  <1>l. ASSUME NEW m \in Application, Manager!Initialise(m) PROVE Manager!TypeOK'
    <2>1. "create" \in Manager!Labels
      BY DEF Manager!Labels
    <2>2. pc' \in [Application -> Manager!Labels] /\ local' \in [Application -> LocalType]
      BY <1>l, <1>2, <1>4, <2>1 DEF Manager!Initialise
    <2>3. \A s \in Manager!Scope : fresh'[s] \subseteq managerRows'[s]
      BY <1>l DEF Manager!Initialise, FreshGenerated
    <2>4. installed' \subseteq Plugin
      BY <1>l DEF Manager!Initialise, LocalFits
    <2> QED
      BY <1>l, <2>2, <2>3, <2>4 DEF Manager!Initialise, LocalType, PackageType
  <1>m. ASSUME NEW m \in Application, Manager!Create(m) PROVE Manager!TypeOK'
    <2>1. {"PluginLoadingFailed", "NoError"} \subseteq Manager!Errors
      BY DEF Manager!Errors
    <2>2. /\ pc' \in [Application -> Manager!Labels] /\ local' \in [Application -> LocalType]
          /\ error' \in [Application -> Manager!Errors] /\ result' \in [Application -> BOOLEAN]
      BY <1>m, <1>1, <2>1 DEF Manager!Create
    <2> QED
      BY <1>m, <2>2 DEF Manager!Create, LocalType, PackageType
  <1>n. ASSUME NEW m \in Application, NEW r \in BOOLEAN, NEW e \in Manager!Errors, Manager!Query(m, r, e) PROVE Manager!TypeOK'
    <2>2. /\ pc' \in [Application -> Manager!Labels] /\ local' \in [Application -> LocalType]
          /\ error' \in [Application -> Manager!Errors] /\ result' \in [Application -> BOOLEAN]
      BY <1>n, <1>1 DEF Manager!Query
    <2>3. operations' \in 0..MaxOperations
      BY <1>n, <1>9 DEF Manager!Query
    <2> QED
      BY <1>n, <2>2, <2>3 DEF Manager!Query, LocalType, PackageType
  <1>o. ASSUME NEW l \in Plugin, Manager!PluginChanges(l) PROVE Manager!TypeOK'
    BY <1>o, <1>9 DEF Manager!PluginChanges
  <1> QED
    BY <1>a, <1>b, <1>c, <1>d, <1>e, <1>f, <1>g, <1>h, <1>i, <1>j, <1>k, <1>l, <1>m, <1>n, <1>o
       DEF Manager!Next

LEMMA ManagerPreserves ==
  ASSUME ManagerInv, [Manager!Next]_(Manager!vars) PROVE ManagerInv'
  <1> USE ManagerAssumption DEF ManagerInv, Manager!stores
  <1>1. CASE UNCHANGED Manager!vars
    <2>1. Manager!TypeOK' /\ FreshGenerated' /\ UnwrittenFresh'
      BY <1>1 DEF Manager!vars, Manager!TypeOK, FreshGenerated, UnwrittenFresh
    <2>2. LocalFits' /\ Manager!RegisteredIsInstalled'
      BY <1>1 DEF Manager!vars, LocalFits, Manager!RegisteredIsInstalled, Manager!Handling
    <2> QED
      BY <2>1, <2>2
  <1>2. CASE Manager!Next
    <2>1. Manager!TypeOK'
      BY <1>2, ManagerTypes
    <2>2. \A m \in Application : local[m] \in LocalType
      BY DEF Manager!TypeOK, LocalType, PackageType
    \* What every step that is not one of the marked ones leaves alone.
    <2>3. ASSUME NEW m \in Application, NEW label, NEW l, Manager!Goto(m, label, l)
          PROVE /\ pc'[m] = label /\ local'[m] = l
                /\ \A n \in Application \ {m} : pc'[n] = pc[n] /\ local'[n] = local[n]
      BY <2>3 DEF Manager!Goto, Manager!TypeOK
    <2>4. ASSUME NEW m \in Application,
                 \A n \in Application \ {m} : pc'[n] = pc[n] /\ local'[n] = local[n],
                 \A s \in Manager!Scope : managerRows'[s] \ fresh'[s] \subseteq managerRows[s] \ fresh[s],
                 installed \subseteq installed',
                 pc[m] \notin {"install", "undo", "unregister"}
          PROVE Manager!RegisteredIsInstalled'
      BY <2>4 DEF Manager!RegisteredIsInstalled, Manager!Handling
    <2>5. ASSUME UNCHANGED Manager!stores, UNCHANGED writable PROVE FreshGenerated' /\ UnwrittenFresh'
      BY <2>5 DEF FreshGenerated, UnwrittenFresh
    <2>6. ASSUME NEW m \in Application, pc'[m] \in {"idle", "create", "install", "undo", "unregister"},
                 \A n \in Application \ {m} : pc'[n] = pc[n] /\ local'[n] = local[n]
          PROVE LocalFits'
      BY <2>6 DEF LocalFits
    <2>7. ASSUME NEW s \in Manager!Scope, NEW n, Manager!Unregistered(s, n), UNCHANGED writable
          PROVE FreshGenerated' /\ UnwrittenFresh'
      BY <2>7 DEF Manager!Unregistered, FreshGenerated, UnwrittenFresh, Manager!TypeOK
    \* Steps that leave the stores and the plugins alone and handle no package.
    <2>8. ASSUME NEW m \in Application, NEW label \in {"idle", "create"}, NEW l, Manager!Goto(m, label, l),
                 UNCHANGED <<Manager!stores, writable, installed>>,
                 pc[m] \notin {"install", "undo", "unregister"}
          PROVE ManagerInv'
      <3>1. pc'[m] = label /\ \A n \in Application \ {m} : pc'[n] = pc[n] /\ local'[n] = local[n]
        BY <2>3, <2>8
      <3>2. Manager!RegisteredIsInstalled'
        BY <2>4, <2>8, <3>1
      <3>3. LocalFits'
        BY <2>6, <3>1
      <3> QED
        BY <2>1, <2>5, <2>8, <3>2, <3>3
    <2>a. ASSUME NEW m \in Application, NEW p \in Package, Manager!AddService(m, p) PROVE ManagerInv'
      <3>1. /\ pc'[m] = "register" /\ local'[m].package = p
            /\ \A n \in Application \ {m} : pc'[n] = pc[n] /\ local'[n] = local[n]
        BY <2>a, <2>3 DEF Manager!AddService, Manager!Begin, Manager!Idle
      <3>2. LocalFits'
        BY <3>1 DEF LocalFits
      <3>3. Manager!RegisteredIsInstalled'
        BY <2>4, <2>a, <3>1 DEF Manager!AddService, Manager!Begin
      <3> QED
        BY <2>1, <2>5, <2>a, <3>2, <3>3 DEF Manager!AddService, Manager!Begin
    <2>b. ASSUME NEW m \in Application, NEW p \in Package, Manager!LoadInterface(m, p) PROVE ManagerInv'
      <3> DEFINE marked == \E s \in Manager!Scope : p \in fresh[s]
      <3>4. /\ pc'[m] = "load" /\ local'[m] = [Manager!Idle EXCEPT !.package = p, !.fresh = marked]
            /\ \A n \in Application \ {m} : pc'[n] = pc[n] /\ local'[n] = local[n]
        BY <2>b, <2>3 DEF Manager!LoadInterface, Manager!Begin
      <3>1. /\ pc'[m] = "load" /\ local'[m].package = p /\ local'[m].fresh = marked
            /\ \A n \in Application \ {m} : pc'[n] = pc[n] /\ local'[n] = local[n]
        <4> HIDE DEF marked
        <4> QED
          BY <3>4 DEF Manager!Idle
      <3>5. marked => \E s \in Manager!Scope : p \in Generated[s]
        BY DEF FreshGenerated
      <3>2. LocalFits'
        <4> HIDE DEF marked
        <4> QED
          BY <3>1, <3>5 DEF LocalFits
      <3>3. Manager!RegisteredIsInstalled'
        BY <2>4, <2>b, <3>1 DEF Manager!LoadInterface, Manager!Begin
      <3> QED
        BY <2>1, <2>5, <2>b, <3>2, <3>3 DEF Manager!LoadInterface, Manager!Begin
    <2>c. ASSUME NEW m \in Application, NEW n \in ServiceName, Manager!RemoveService(m, n) PROVE ManagerInv'
      <3>1. /\ pc'[m] = "uninstall" /\ local'[m].package.name = n /\ local'[m].paths = Manager!PathsOf(m, n)
            /\ \A k \in Application \ {m} : pc'[k] = pc[k] /\ local'[k] = local[k]
        <4>1. /\ pc'[m] = "uninstall"
              /\ local'[m] = [Manager!Idle EXCEPT !.package.name = n, !.paths = Manager!PathsOf(m, n)]
              /\ \A k \in Application \ {m} : pc'[k] = pc[k] /\ local'[k] = local[k]
          BY <2>c, <2>3 DEF Manager!RemoveService, Manager!Begin
        <4> QED
          BY <4>1 DEF Manager!Idle, Manager!NoPackage
      <3>2. ASSUME NEW q \in Package, ~q.ipc, q.location \in Manager!PathsOf(m, n) PROVE q.name = n
        <4>1. Manager!Visible(m) \subseteq Package
          BY DEF Manager!Visible, Manager!TypeOK, Manager!Scope
        <4>2. PICK p \in Manager!Visible(m) : p.name = n /\ ~p.ipc /\ q.location = p.location
          BY <3>2 DEF Manager!PathsOf
        <4> QED
          BY <3>2, <4>1, <4>2, PluginNamed
      <3>3. LocalFits'
        BY <3>1, <3>2 DEF LocalFits
      <3>4. Manager!RegisteredIsInstalled'
        BY <2>4, <2>c, <3>1 DEF Manager!RemoveService, Manager!Begin
      <3> QED
        BY <2>1, <2>5, <2>c, <3>3, <3>4 DEF Manager!RemoveService, Manager!Begin
    <2>d. ASSUME NEW m \in Application, Manager!AddInvalidXml(m) PROVE ManagerInv'
      BY <2>8, <2>d DEF Manager!AddInvalidXml, Manager!Return
    <2>e. ASSUME NEW m \in Application, Manager!Register(m) PROVE ManagerInv'
      <3> DEFINE p == local[m].package  s == ScopeOf[m]
      <3>1. /\ p \in Package /\ s \in Manager!Scope /\ s \in writable
            /\ managerRows' = [managerRows EXCEPT ![s] = @ \cup {p}]
            /\ UNCHANGED <<fresh, writable, installed>>
        BY <2>e DEF Manager!Register, Manager!MayRegister, LocalFits
      <3>2. FreshGenerated' /\ UnwrittenFresh'
        BY <3>1 DEF FreshGenerated, UnwrittenFresh, Manager!TypeOK
      <3>3. /\ pc'[m] \in {"idle", "install"}
            /\ p.ipc \/ (pc'[m] = "install" /\ local'[m] = local[m])
            /\ \A k \in Application \ {m} : pc'[k] = pc[k] /\ local'[k] = local[k]
        BY <2>e, <2>3 DEF Manager!Register, Manager!Return
      <3>4. LocalFits'
        BY <2>6, <3>3
      <3>5. Manager!RegisteredIsInstalled'
        <4> SUFFICES ASSUME NEW t \in Manager!Scope, NEW q \in managerRows'[t] \ fresh'[t],
                            ~q.ipc, q.location \notin installed'
                     PROVE \E k \in Application : Manager!Handling(k, q)'
          BY DEF Manager!RegisteredIsInstalled
        <4>1. CASE q \in managerRows[t]
          <5>1. PICK k \in Application : Manager!Handling(k, q)
            BY <3>1, <4>1 DEF Manager!RegisteredIsInstalled
          <5>2. k # m
            BY <2>e, <5>1 DEF Manager!Handling, Manager!Register
          <5> QED
            BY <3>3, <5>1, <5>2 DEF Manager!Handling
        <4>2. CASE q \notin managerRows[t]
          <5>1. q = p
            BY <3>1, <4>2 DEF Manager!TypeOK
          <5> QED
            BY <3>3, <5>1 DEF Manager!Handling
        <4> QED
          BY <4>1, <4>2
      <3> QED
        BY <2>1, <3>2, <3>4, <3>5
    <2>f. ASSUME NEW m \in Application, Manager!RegisterFails(m) PROVE ManagerInv'
      BY <2>8, <2>f DEF Manager!RegisterFails, Manager!Return
    <2>g. ASSUME NEW m \in Application, Manager!Install(m) PROVE ManagerInv'
      <3>1. /\ pc[m] = "install" /\ UNCHANGED <<Manager!stores, writable>>
            /\ \A k \in Application \ {m} : pc'[k] = pc[k] /\ local'[k] = local[k]
            /\ \/ pc'[m] = "undo" /\ local'[m] = local[m] /\ installed' = installed
               \/ pc'[m] = "idle" /\ installed' = installed \cup {local[m].package.location}
        BY <2>g, <2>3 DEF Manager!Install, Manager!InstallPlugin, Manager!Return
      <3>2. LocalFits'
        BY <2>6, <3>1
      <3>3. Manager!RegisteredIsInstalled'
        BY <3>1 DEF Manager!RegisteredIsInstalled, Manager!Handling
      <3> QED
        BY <2>1, <2>5, <3>1, <3>2, <3>3
    <2>10. ASSUME NEW m \in Application, NEW n, pc'[m] = "idle",
                  pc[m] \in {"undo", "unregister"}, n = local[m].package.name,
                  Manager!Unregistered(ScopeOf[m], n), UNCHANGED <<writable, installed>>,
                  \A k \in Application \ {m} : pc'[k] = pc[k] /\ local'[k] = local[k]
          PROVE Manager!RegisteredIsInstalled'
      <3> SUFFICES ASSUME NEW t \in Manager!Scope, NEW q \in managerRows'[t] \ fresh'[t],
                          ~q.ipc, q.location \notin installed'
                   PROVE \E k \in Application : Manager!Handling(k, q)'
        BY DEF Manager!RegisteredIsInstalled
      <3>1. q \in managerRows[t] \ fresh[t]
        BY <2>10 DEF Manager!Unregistered, Manager!TypeOK, FreshGenerated
      <3>2. PICK k \in Application : Manager!Handling(k, q)
        BY <2>10, <3>1 DEF Manager!RegisteredIsInstalled
      <3>3. t = ScopeOf[m]
        BY <3>1, OneScope DEF UnwrittenFresh
      <3>4. q.name # n
        BY <2>10, <3>3 DEF Manager!Unregistered, Manager!TypeOK
      <3>5. k # m
        BY <2>10, <3>2, <3>4 DEF Manager!Handling
      <3> QED
        BY <2>10, <3>2, <3>5 DEF Manager!Handling
    <2>h. ASSUME NEW m \in Application, Manager!UndoRegistration(m) PROVE ManagerInv'
      <3>1. /\ pc'[m] = "idle"
            /\ \A k \in Application \ {m} : pc'[k] = pc[k] /\ local'[k] = local[k]
        BY <2>h, <2>3 DEF Manager!UndoRegistration, Manager!Return
      <3>2. LocalFits'
        BY <2>6, <3>1
      <3>3. Manager!RegisteredIsInstalled'
        BY <2>h, <2>10, <3>1 DEF Manager!UndoRegistration
      <3> QED
        BY <2>1, <2>7, <2>h, <3>2, <3>3 DEF Manager!UndoRegistration
    <2>i. ASSUME NEW m \in Application, Manager!Uninstall(m) PROVE ManagerInv'
      <3>1. /\ pc[m] = "uninstall" /\ pc'[m] = "unregister" /\ local'[m] = local[m]
            /\ UNCHANGED <<Manager!stores, writable>> /\ installed \ installed' \subseteq local[m].paths
            /\ \A k \in Application \ {m} : pc'[k] = pc[k] /\ local'[k] = local[k]
        BY <2>i, <2>3 DEF Manager!Uninstall
      <3>2. LocalFits'
        BY <2>6, <3>1
      <3>3. Manager!RegisteredIsInstalled'
        <4> SUFFICES ASSUME NEW t \in Manager!Scope, NEW q \in managerRows[t] \ fresh[t],
                            ~q.ipc, q.location \notin installed'
                     PROVE \E k \in Application : Manager!Handling(k, q)'
          BY <3>1 DEF Manager!RegisteredIsInstalled
        <4>1. CASE q.location \in installed
          <5>1. q \in Package /\ q.location \in local[m].paths
            BY <3>1, <4>1 DEF Manager!TypeOK
          <5> QED
            BY <3>1, <5>1 DEF LocalFits, Manager!Handling
        <4>2. CASE q.location \notin installed
          <5>1. PICK k \in Application : Manager!Handling(k, q)
            BY <4>2 DEF Manager!RegisteredIsInstalled
          <5> QED
            BY <3>1, <5>1 DEF Manager!Handling
        <4> QED
          BY <4>1, <4>2
      <3> QED
        BY <2>1, <2>5, <3>1, <3>2, <3>3
    <2>j. ASSUME NEW m \in Application, Manager!Unregister(m) PROVE ManagerInv'
      <3> DEFINE s == ScopeOf[m]  n == local[m].package.name
      <3>1. /\ pc[m] = "unregister" /\ pc'[m] = "idle" /\ UNCHANGED <<writable, installed>>
            /\ \A k \in Application \ {m} : pc'[k] = pc[k] /\ local'[k] = local[k]
        BY <2>j, <2>3 DEF Manager!Unregister, Manager!Return
      <3>2. LocalFits'
        BY <2>6, <3>1
      <3>3. CASE s \in writable /\ \E q \in managerRows[s] : q.name = n
        <4>1. Manager!Unregistered(s, n)
          BY <2>j, <3>3 DEF Manager!Unregister
        <4>2. Manager!RegisteredIsInstalled'
          BY <2>10, <3>1, <4>1
        <4> QED
          BY <2>1, <2>7, <3>1, <3>2, <4>1, <4>2
      <3>4. CASE ~(s \in writable /\ \E q \in managerRows[s] : q.name = n)
        <4>1. UNCHANGED Manager!stores
          BY <2>j, <3>4 DEF Manager!Unregister
        <4>2. ASSUME NEW t \in Manager!Scope, NEW q \in managerRows[t] \ fresh[t] PROVE q.name # n
          BY <3>4, OneScope DEF UnwrittenFresh
        <4>3. Manager!RegisteredIsInstalled'
          BY <3>1, <4>1, <4>2 DEF Manager!RegisteredIsInstalled, Manager!Handling
        <4> QED
          BY <2>1, <2>5, <3>1, <3>2, <4>1, <4>3
      <3> QED
        BY <3>3, <3>4
    <2>k. ASSUME NEW m \in Application, Manager!Load(m) PROVE ManagerInv'
      <3>1. CASE \E l : Manager!Goto(m, "idle", l) \/ Manager!Goto(m, "create", l)
        BY <2>8, <2>k, <3>1 DEF Manager!Load
      <3>2. CASE /\ ~local[m].package.ipc /\ local[m].fresh
                 /\ Manager!Goto(m, "initialise", local[m])
        <4>1. /\ pc[m] = "load" /\ pc'[m] = "initialise" /\ local'[m] = local[m]
              /\ UNCHANGED <<Manager!stores, writable, installed>>
              /\ \A k \in Application \ {m} : pc'[k] = pc[k] /\ local'[k] = local[k]
          BY <2>k, <2>3, <3>2 DEF Manager!Load
        <4>2. LocalFits'
          BY <3>2, <4>1 DEF LocalFits
        <4>3. Manager!RegisteredIsInstalled'
          BY <2>4, <4>1
        <4> QED
          BY <2>1, <2>5, <4>1, <4>2, <4>3
      <3> QED
        BY <2>k, <3>1, <3>2 DEF Manager!Load, Manager!Return
    <2>l. ASSUME NEW m \in Application, Manager!Initialise(m) PROVE ManagerInv'
      <3> DEFINE p == local[m].package  s == ScopeOf[m]
      <3>1. /\ pc[m] = "initialise" /\ pc'[m] = "create" /\ UNCHANGED <<managerRows, writable>>
            /\ installed' = installed \cup {p.location}
            /\ fresh' = IF s \in writable THEN [fresh EXCEPT ![s] = {q \in @ : q.name # p.name}]
                        ELSE fresh
            /\ \A k \in Application \ {m} : pc'[k] = pc[k] /\ local'[k] = local[k]
        BY <2>l, <2>3 DEF Manager!Initialise
      <3>2. LocalFits'
        BY <2>6, <3>1
      <3>3. FreshGenerated' /\ UnwrittenFresh'
        BY <3>1 DEF FreshGenerated, UnwrittenFresh
      <3>4. Manager!RegisteredIsInstalled'
        <4> SUFFICES ASSUME NEW t \in Manager!Scope, NEW q \in managerRows[t] \ fresh'[t],
                            ~q.ipc, q.location \notin installed'
                     PROVE \E k \in Application : Manager!Handling(k, q)'
          BY <3>1 DEF Manager!RegisteredIsInstalled
        <4>1. CASE q \in fresh[t]
          <5>1. q \in Generated[t] /\ q.name = p.name
            BY <3>1, <4>1 DEF FreshGenerated
          <5>2. ~p.ipc /\ \E u \in Manager!Scope : p \in Generated[u]
            BY <3>1 DEF LocalFits
          <5>3. q.location = p.location
            BY <5>1, <5>2, GeneratedOnce
          <5> QED
            BY <3>1, <5>3
        <4>2. CASE q \notin fresh[t]
          <5>1. PICK k \in Application : Manager!Handling(k, q)
            BY <3>1, <4>2 DEF Manager!RegisteredIsInstalled
          <5>2. k # m
            BY <3>1, <5>1 DEF Manager!Handling
          <5> QED
            BY <3>1, <5>1, <5>2 DEF Manager!Handling
        <4> QED
          BY <4>1, <4>2
      <3> QED
        BY <2>1, <3>2, <3>3, <3>4
    <2>m. ASSUME NEW m \in Application, Manager!Create(m) PROVE ManagerInv'
      BY <2>8, <2>m DEF Manager!Create, Manager!Return
    <2>n. ASSUME NEW m \in Application, NEW r \in BOOLEAN, NEW e \in Manager!Errors, Manager!Query(m, r, e)
          PROVE ManagerInv'
      BY <2>8, <2>n DEF Manager!Query, Manager!Return
    <2>o. ASSUME NEW l \in Plugin, Manager!PluginChanges(l) PROVE ManagerInv'
      <3>1. LocalFits' /\ Manager!RegisteredIsInstalled'
        BY <2>o DEF Manager!PluginChanges, LocalFits, Manager!RegisteredIsInstalled,
           Manager!Handling
      <3> QED
        BY <2>1, <2>5, <2>o, <3>1 DEF Manager!PluginChanges
    <2> QED
      BY <1>2, <2>a, <2>b, <2>c, <2>d, <2>e, <2>f, <2>g, <2>h, <2>i, <2>j, <2>k, <2>l, <2>m, <2>n,
         <2>o DEF Manager!Next
  <1> QED
    BY <1>1, <1>2
-----------------------------------------------------------------------------
(***************************************************************************)
(* The reader of service documents: its calls are nested as the document is, *)
(* and an interface comes once, with its latest version known.             *)
(***************************************************************************)
MetaTag == {"name", "description", "filepath", "ipcaddress", "version", "capabilities"}
Functions == {"SFW", "service", "interface"}
\* Who may be called by whom.
Nested(s) ==
  /\ s \in Seq(Functions)
  /\ \A i \in 1..Len(s) :
       /\ s[i] = "SFW" => i = 1
       /\ s[i] = "service" => i = 1 \/ (i = 2 /\ s[1] = "SFW")
       /\ s[i] = "interface" => i > 1 /\ s[i - 1] = "service"
ReadInterface == [name : InterfaceName, version : DocumentVersion, custom : BOOLEAN]
InterfaceFits ==
  /\ interface \in [name : InterfaceName \cup {<<>>}, version : DocumentVersion \cup {<<0, 0>>}, custom : BOOLEAN]
  /\ interfaceTags["version"] # 0 => interface.version \in DocumentVersion
MetaFits ==
  /\ Nested(calls)
  /\ serviceTags \in [MetaTag -> Nat] /\ interfaceTags \in [MetaTag -> Nat]
  /\ InterfaceFits
  /\ serviceInterfaces \in Seq(ReadInterface)
  /\ latestIndex \in [DOMAIN latestIndex -> DOMAIN serviceInterfaces]
MetaInv == Meta!TypeOK /\ MetaFits /\ Meta!ResultConsistent

LEMMA FrontOf ==
  ASSUME NEW S, NEW s \in Seq(S), s # <<>>, NEW t, t = SubSeq(s, 1, Len(s) - 1)
  PROVE  t \in Seq(S) /\ Len(t) = Len(s) - 1 /\ \A i \in 1..Len(t) : t[i] = s[i]
  <1> DEFINE n == Len(s) - 1
  <1>1. Len(s) \in Nat /\ Len(s) > 0 /\ n \in Nat /\ 1 \in Int /\ n \in Int /\ n - 1 + 1 = n
    OBVIOUS
  <1>2. \A i \in 1..n : s[i] \in S
    OBVIOUS
  <1>3. t = SubSeq(s, 1, n)
    OBVIOUS
  <1> HIDE DEF n
  <1>4. /\ t \in Seq(S)
        /\ Len(t) = IF 1 <= n THEN n - 1 + 1 ELSE 0
        /\ \A i \in 1..(n - 1 + 1) : t[i] = s[1 + i - 1]
    BY <1>1, <1>2, <1>3, SubSeqProperties
  <1>5. Len(t) = n
    <2>1. CASE 1 <= n
      BY <1>1, <1>4, <2>1
    <2>2. CASE ~(1 <= n)
      BY <1>1, <1>4, <2>2
    <2> QED
      BY <2>1, <2>2
  <1>6. ASSUME NEW i \in 1..n PROVE t[i] = s[i]
    <2>1. 1 + i - 1 = i /\ i \in 1..(n - 1 + 1)
      BY <1>1
    <2> QED
      BY <1>4, <2>1
  <1> QED
    BY <1>4, <1>5, <1>6 DEF n

LEMMA NestedPop ==
  ASSUME NEW s, Nested(s), s # <<>> PROVE Nested(SubSeq(s, 1, Len(s) - 1))
  <1> DEFINE t == SubSeq(s, 1, Len(s) - 1)
  <1>1. Len(s) \in Nat /\ Len(s) > 0
    BY DEF Nested
  <1>2. t \in Seq(Functions) /\ Len(t) = Len(s) - 1 /\ \A i \in 1..Len(t) : t[i] = s[i]
    <2>1. s \in Seq(Functions) /\ s # <<>>
      BY DEF Nested
    <2> QED
      BY <2>1, FrontOf
  <1> HIDE DEF t
  <1> QED
    BY <1>1, <1>2 DEF Nested

LEMMA NestedPush ==
  ASSUME NEW s, Nested(s), NEW f \in Functions,
         IF s = <<>> THEN f \in {"SFW", "service"}
         ELSE \/ s[Len(s)] = "SFW" /\ f = "service"
              \/ s[Len(s)] = "service" /\ f = "interface"
  PROVE  Nested(Append(s, f))
  <1> DEFINE t == Append(s, f)
  <1>1. /\ t \in Seq(Functions) /\ Len(t) = Len(s) + 1 /\ Len(s) \in Nat
        /\ t[Len(s) + 1] = f /\ \A i \in 1..Len(s) : t[i] = s[i]
    BY DEF Nested
  <1>2. CASE s = <<>>
    BY <1>1, <1>2 DEF Nested, Functions
  <1>3. CASE s # <<>>
    <2>1. Len(s) > 0
      BY <1>1, <1>3 DEF Nested
    <2> HIDE DEF t
    <2>2. s[Len(s)] = "SFW" => Len(s) = 1
      <3>1. Len(s) \in 1..Len(s)
        BY <1>1, <2>1
      <3> QED
        BY <3>1 DEF Nested
    <2> QED
      BY <1>1, <1>3, <2>1, <2>2 DEF Nested, Functions
  <1> QED
    BY <1>2, <1>3

LEMMA NestedDepth ==
  ASSUME NEW s, Nested(s) PROVE Len(s) <= 3
  BY DEF Nested, Functions

LEMMA VersionsOrdered ==
  ASSUME NEW u \in DocumentVersion, NEW v \in DocumentVersion
  PROVE  /\ Meta!LessThan(u, v) <=> u[1] < v[1] \/ (u[1] = v[1] /\ u[2] < v[2])
         /\ u[1] \in Nat /\ u[2] \in Nat /\ v[1] \in Nat /\ v[2] \in Nat
         /\ u # v => u[1] # v[1] \/ u[2] # v[2]
  BY MetaAssumption DEF Meta!LessThan

LEMMA LatestKept ==
  ASSUME MetaInv, Meta!EndInterface, outcome' = "parsing"
  PROVE  Meta!ResultConsistent'
  <1> USE MetaAssumption
  <1>1. /\ interfaceTags["version"] # 0 /\ interface.name # <<>> /\ ~Meta!IsDuplicate(interface)
        /\ Meta!AppendInterface(interface)
    BY DEF Meta!EndInterface, Meta!Fail
  <1> DEFINE k == Len(serviceInterfaces) + 1
             newer == \/ interface.name \notin DOMAIN latestIndex
                      \/ Meta!LessThan(serviceInterfaces[latestIndex[interface.name]].version,
                                  interface.version)
  <1>2. /\ interface \in ReadInterface
        /\ serviceInterfaces \in Seq(ReadInterface) /\ k \in Nat
    <2>1. interface.name \in InterfaceName /\ interface.version \in DocumentVersion
          /\ interface \in [name : InterfaceName \cup {<<>>}, version : DocumentVersion \cup {<<0, 0>>}, custom : BOOLEAN]
      BY <1>1 DEF MetaInv, MetaFits, InterfaceFits
    <2>2. serviceInterfaces \in Seq(ReadInterface)
      BY DEF MetaInv, MetaFits
    <2> QED
      BY <2>1, <2>2 DEF ReadInterface
  <1>3. /\ serviceInterfaces' \in Seq(ReadInterface)
        /\ DOMAIN serviceInterfaces' = DOMAIN serviceInterfaces \cup {k}
        /\ k \notin DOMAIN serviceInterfaces
        /\ serviceInterfaces'[k] = interface
        /\ \A i \in DOMAIN serviceInterfaces : serviceInterfaces'[i] = serviceInterfaces[i]
    BY <1>1, <1>2 DEF Meta!AppendInterface
  <1>4. latestIndex' = IF newer THEN [n \in {interface.name} \cup DOMAIN latestIndex |->
                                        IF n = interface.name THEN k ELSE latestIndex[n]]
                       ELSE latestIndex
    BY <1>1 DEF Meta!AppendInterface
  <1> HIDE DEF k
  <1>5. newer \in BOOLEAN
    OBVIOUS
  <1>6. DOMAIN latestIndex = {serviceInterfaces[i].name : i \in DOMAIN serviceInterfaces}
        /\ \A n \in DOMAIN latestIndex : latestIndex[n] \in DOMAIN serviceInterfaces
    BY DEF MetaInv, Meta!ResultConsistent, Meta!TypeOK
  <1>7. DOMAIN latestIndex' = {serviceInterfaces'[i].name : i \in DOMAIN serviceInterfaces'}
    <2>1. {serviceInterfaces'[i].name : i \in DOMAIN serviceInterfaces'} =
            {interface.name} \cup {serviceInterfaces[i].name : i \in DOMAIN serviceInterfaces}
      BY <1>3
    <2>2. ~newer => interface.name \in DOMAIN latestIndex
      OBVIOUS
    <2> HIDE DEF newer
    <2> QED
      BY <1>4, <1>6, <2>1, <2>2
  <1>8. ASSUME NEW i \in DOMAIN serviceInterfaces', NEW j \in DOMAIN serviceInterfaces', i # j
        PROVE  \/ serviceInterfaces'[i].name # serviceInterfaces'[j].name
               \/ serviceInterfaces'[i].version # serviceInterfaces'[j].version
    <2>1. ASSUME NEW h \in DOMAIN serviceInterfaces
          PROVE  \/ serviceInterfaces[h].name # interface.name
                 \/ serviceInterfaces[h].version # interface.version
      BY <1>1 DEF Meta!IsDuplicate, Meta!Ident
    <2> QED
      BY <1>3, <1>8, <2>1 DEF MetaInv, Meta!ResultConsistent
  <1> DEFINE Above(v, w) == v[1] > w[1] \/ (v[1] = w[1] /\ v[2] >= w[2])
  <1>9. ASSUME NEW i \in DOMAIN serviceInterfaces
        PROVE  LET l == serviceInterfaces[latestIndex[serviceInterfaces[i].name]] IN
               /\ latestIndex[serviceInterfaces[i].name] \in DOMAIN serviceInterfaces
               /\ l.name = serviceInterfaces[i].name
               /\ Above(l.version, serviceInterfaces[i].version)
    BY <1>6 DEF MetaInv, Meta!ResultConsistent
  <1>10. ASSUME NEW i \in DOMAIN serviceInterfaces' PROVE serviceInterfaces'[i].version \in DocumentVersion
    <2>1. serviceInterfaces'[i] \in ReadInterface
      BY <1>3
    <2> QED
      BY <2>1 DEF ReadInterface
  <1>11. ASSUME NEW i \in DOMAIN serviceInterfaces'
         PROVE  LET l == serviceInterfaces'[latestIndex'[serviceInterfaces'[i].name]] IN
                /\ l.name = serviceInterfaces'[i].name
                /\ Above(l.version, serviceInterfaces'[i].version)
    <2>1. \A v \in DocumentVersion : Above(v, v)
      BY VersionsOrdered
    <2>2. ASSUME NEW u \in DocumentVersion, NEW v \in DocumentVersion, NEW w \in DocumentVersion,
                 Meta!LessThan(u, v), Above(u, w)
          PROVE  Above(v, w)
      BY <2>2, VersionsOrdered
    <2>3. ASSUME NEW u \in DocumentVersion, NEW v \in DocumentVersion, ~Meta!LessThan(u, v)
          PROVE  Above(u, v)
      BY <2>3, VersionsOrdered
    <2> HIDE DEF Above
    <2>4. CASE i = k
      <3>1. CASE newer
        BY <1>3, <1>4, <1>10, <2>1, <2>4, <3>1
      <3>2. CASE ~newer
        <4> DEFINE n == interface.name
                   l == latestIndex[n]
        <4>1. /\ n \in DOMAIN latestIndex /\ l \in DOMAIN serviceInterfaces
              /\ ~Meta!LessThan(serviceInterfaces[l].version, interface.version)
          BY <1>6, <3>2
        <4>2. latestIndex'[n] = l
          <5> HIDE DEF newer
          <5> QED
            BY <1>4, <3>2
        <4>3. serviceInterfaces'[l] = serviceInterfaces[l] /\ serviceInterfaces[l].name = n
          <5>1. PICK j \in DOMAIN serviceInterfaces : serviceInterfaces[j].name = n
            BY <1>6, <4>1
          <5> QED
            BY <1>3, <1>9, <4>1, <5>1
        <4>4. serviceInterfaces[l].version \in DocumentVersion /\ interface.version \in DocumentVersion
          BY <1>2, <1>3, <1>10, <4>1
        <4> QED
          BY <1>3, <2>3, <2>4, <4>1, <4>2, <4>3, <4>4
      <3> QED
        BY <3>1, <3>2
    <2>5. CASE i \in DOMAIN serviceInterfaces
      <3>1. serviceInterfaces'[i] = serviceInterfaces[i]
        BY <1>3, <2>5
      <3> DEFINE n == serviceInterfaces[i].name
                 l == latestIndex[n]
      <3>2. /\ n \in DOMAIN latestIndex /\ l \in DOMAIN serviceInterfaces
            /\ serviceInterfaces[l].name = n
            /\ Above(serviceInterfaces[l].version, serviceInterfaces[i].version)
            /\ serviceInterfaces'[l] = serviceInterfaces[l]
        BY <1>3, <1>6, <1>9, <2>5
      <3>3. CASE newer /\ n = interface.name
        <4>1. latestIndex'[n] = k
          BY <1>4, <3>3
        <4>2. Meta!LessThan(serviceInterfaces[l].version, interface.version)
          BY <3>2, <3>3
        <4>3. serviceInterfaces[l].version \in DocumentVersion /\ serviceInterfaces[i].version \in DocumentVersion
              /\ interface.version \in DocumentVersion
          BY <1>2, <1>3, <1>10, <2>5, <3>2
        <4> QED
          BY <1>3, <2>2, <3>1, <3>2, <3>3, <4>1, <4>2, <4>3
      <3>4. CASE ~(newer /\ n = interface.name)
        <4>1. latestIndex'[n] = l
          <5> HIDE DEF newer
          <5> QED
            BY <1>4, <3>2, <3>4
        <4> QED
          BY <3>1, <3>2, <4>1
      <3> QED
        BY <3>3, <3>4
    <2> QED
      BY <1>3, <2>4, <2>5
  <1> QED
    BY <1>7, <1>8, <1>11 DEF Meta!ResultConsistent

LEMMA FailPreserves ==
  ASSUME MetaInv, NEW e, Meta!Fail(e), elements' \in 0..MaxElements
  PROVE  MetaInv'
  <1> USE MetaAssumption
  <1>1. Meta!TypeOK'
    BY DEF MetaInv, Meta!Fail, Meta!TypeOK, Meta!XmlVersions, Meta!element
  <1>2. MetaFits'
    <2>1. serviceInterfaces' \in Seq(ReadInterface) /\ latestIndex' \in [DOMAIN latestIndex' -> DOMAIN serviceInterfaces']
      BY DEF Meta!Fail
    <2> QED
      BY <2>1 DEF MetaInv, MetaFits, Meta!Fail, Meta!element, InterfaceFits
  <1>3. Meta!ResultConsistent'
    BY DEF Meta!Fail, Meta!ResultConsistent
  <1> QED
    BY <1>1, <1>2, <1>3 DEF MetaInv

LEMMA EndInterfacePreserves ==
  ASSUME MetaInv, Meta!EndInterface PROVE MetaInv'
  <1> USE MetaAssumption
  <1>1. ASSUME NEW e, Meta!Fail(e), elements' = elements PROVE MetaInv'
    BY <1>1, FailPreserves DEF MetaInv, Meta!TypeOK
  <1>2. ASSUME outcome' = "parsing" PROVE MetaInv'
    <2>1. Meta!ResultConsistent'
      BY <1>2, LatestKept
    <2>2. /\ interface.name # <<>> /\ interfaceTags["version"] # 0
          /\ Meta!AppendInterface(interface) /\ Meta!Leave
          /\ UNCHANGED <<broken, xmlVersion, Meta!element, latestError, outcome, elements>>
      BY <1>2 DEF Meta!EndInterface, Meta!Fail
    <2>3. /\ interface \in ReadInterface
          /\ serviceInterfaces \in Seq(ReadInterface)
      <3>1. interface.name \in InterfaceName /\ interface.version \in DocumentVersion
            /\ interface \in [name : InterfaceName \cup {<<>>}, version : DocumentVersion \cup {<<0, 0>>}, custom : BOOLEAN]
        BY <2>2 DEF MetaInv, MetaFits, InterfaceFits
      <3> QED
        BY <3>1 DEF ReadInterface, MetaInv, MetaFits
    <2>4. serviceInterfaces' \in Seq(ReadInterface)
      BY <2>2, <2>3 DEF Meta!AppendInterface
    <2>5. latestIndex' \in [DOMAIN latestIndex' -> DOMAIN serviceInterfaces']
      BY <2>2, <2>3 DEF Meta!AppendInterface, MetaInv, MetaFits
    <2>6. Nested(calls')
      <3>1. calls # <<>>
        BY DEF Meta!EndInterface, Meta!Level
      <3> QED
        BY <2>2, <3>1, NestedPop DEF Meta!Leave, MetaInv, MetaFits
    <2>7. MetaFits'
      BY <2>2, <2>4, <2>5, <2>6 DEF MetaFits, MetaInv, InterfaceFits, Meta!element
    <2>8. Meta!TypeOK'
      <3>1. calls' \in Seq({"SFW", "service", "interface"}) /\ Len(calls') <= 3
        BY <2>6, NestedDepth DEF Nested, Functions
      <3>2. rootRead' \in BOOLEAN
        BY <2>2 DEF Meta!Leave, MetaInv, Meta!TypeOK
      <3>3. \A i \in DOMAIN serviceInterfaces' : serviceInterfaces'[i].name \in InterfaceName
                /\ serviceInterfaces'[i].version \in DocumentVersion
        <4>1. \A i \in DOMAIN serviceInterfaces' : serviceInterfaces'[i] \in ReadInterface
          BY <2>4
        <4> QED
          BY <4>1 DEF ReadInterface
      <3>4. DOMAIN latestIndex' \subseteq InterfaceName
        BY <2>2, <2>3 DEF Meta!AppendInterface, ReadInterface, MetaInv, Meta!TypeOK
      <3>5. \A n \in DOMAIN latestIndex' : latestIndex'[n] \in DOMAIN serviceInterfaces'
        BY <2>5
      <3>6. /\ broken' \in BOOLEAN /\ xmlVersion' \in Meta!XmlVersions
            /\ serviceName' \in {Meta!Empty, "name"}
            /\ serviceLocation' \in {Meta!Empty, "path", "address"}
            /\ serviceType' \in {"Plugin", "InterProcess"}
            /\ outcome' \in {"parsing", "accepted", "rejected"} /\ elements' \in 0..MaxElements
        BY <2>2 DEF Meta!AppendInterface, MetaInv, Meta!TypeOK
      <3> QED
        BY <3>1, <3>2, <3>3, <3>4, <3>5, <3>6 DEF Meta!TypeOK
    <2> QED
      BY <2>1, <2>7, <2>8 DEF MetaInv
  <1>3. \/ outcome' = "parsing"
        \/ /\ \/ Meta!Fail("NO_INTERFACE_VERSION") \/ Meta!Fail("NO_INTERFACE_NAME")
              \/ Meta!Fail("DUPLICATED_TAG") \/ Meta!Fail("DUPLICATED_INTERFACE")
           /\ elements' = elements
    BY DEF Meta!EndInterface
  <1> QED
    BY <1>1, <1>2, <1>3

\* Steps that leave the interfaces as they are.
LEMMA QuietPreserves ==
  ASSUME MetaInv,
         UNCHANGED <<serviceInterfaces, latestIndex>>,
         Nested(calls'), broken' \in BOOLEAN, rootRead' \in BOOLEAN,
         xmlVersion' \in Meta!XmlVersions, serviceName' \in {Meta!Empty, "name"},
         serviceLocation' \in {Meta!Empty, "path", "address"},
         serviceType' \in {"Plugin", "InterProcess"},
         outcome' \in {"parsing", "accepted", "rejected"}, elements' \in 0..MaxElements,
         serviceTags' \in [MetaTag -> Nat], interfaceTags' \in [MetaTag -> Nat],
         InterfaceFits'
  PROVE  MetaInv'
  <1>1. Meta!TypeOK'
    <2>1. calls' \in Seq({"SFW", "service", "interface"}) /\ Len(calls') <= 3
      BY NestedDepth DEF Nested, Functions
    <2> QED
      BY <2>1 DEF MetaInv, Meta!TypeOK
  <1>2. MetaFits'
    BY DEF MetaInv, MetaFits
  <1>3. Meta!ResultConsistent'
    BY DEF MetaInv, Meta!ResultConsistent
  <1> QED
    BY <1>1, <1>2, <1>3 DEF MetaInv

LEMMA MetaInitInv == ASSUME Meta!Init PROVE MetaInv
  <1> USE MetaAssumption
  <1>1. Nested(calls)
    BY DEF Meta!Init, Nested
  <1>2. Meta!TypeOK
    <2>1. /\ calls \in Seq({"SFW", "service", "interface"}) /\ Len(calls) <= 3
          /\ DOMAIN serviceInterfaces = {} /\ DOMAIN latestIndex = {}
      BY DEF Meta!Init
    <2>2. elements \in 0..MaxElements /\ xmlVersion \in Meta!XmlVersions
      BY DEF Meta!Init, Meta!XmlVersions
    <2> QED
      BY <2>1, <2>2 DEF Meta!Init, Meta!TypeOK, Meta!Empty
  <1>3. MetaFits
    BY <1>1 DEF Meta!Init, MetaFits, InterfaceFits, Meta!NoTags, MetaTag, Meta!NoInterface
  <1>4. Meta!ResultConsistent
    BY DEF Meta!Init, Meta!ResultConsistent
  <1> QED
    BY <1>2, <1>3, <1>4 DEF MetaInv

LEMMA MetaPreserves == ASSUME MetaInv, Meta!Next PROVE MetaInv'
  <1> USE MetaAssumption
  <1> USE DEF MetaInv
  <1>1. /\ Nested(calls) /\ broken \in BOOLEAN /\ rootRead \in BOOLEAN
        /\ xmlVersion \in Meta!XmlVersions /\ serviceName \in {Meta!Empty, "name"}
        /\ serviceLocation \in {Meta!Empty, "path", "address"}
        /\ serviceType \in {"Plugin", "InterProcess"}
        /\ outcome \in {"parsing", "accepted", "rejected"} /\ elements \in 0..MaxElements
        /\ serviceTags \in [MetaTag -> Nat] /\ interfaceTags \in [MetaTag -> Nat]
        /\ InterfaceFits
    BY DEF Meta!TypeOK, MetaFits
  <1>2. ASSUME Meta!Counted PROVE elements' \in 0..MaxElements
    BY <1>1, <1>2 DEF Meta!Counted
  <1>3. ASSUME Meta!Leave, calls # <<>> PROVE Nested(calls') /\ rootRead' \in BOOLEAN
    BY <1>1, <1>3, NestedPop DEF Meta!Leave
  <1>4. ASSUME NEW e, Meta!Fail(e), elements' \in 0..MaxElements PROVE MetaInv'
    BY <1>4, FailPreserves
  <1>5. ASSUME NEW v \in Meta!XmlVersions, Meta!StartSFW(v) PROVE MetaInv'
    <2>1. CASE v \in {"1.0", "1.1"}
      <3>1. calls = <<>>
        BY <1>5, <1>1 DEF Meta!StartSFW, Meta!Level, Nested, Functions
      <3>2. calls' = Append(calls, "SFW")
        BY <1>5, <2>1 DEF Meta!StartSFW, Meta!Enter
      <3>3. Nested(calls')
        <4>1. "SFW" \in Functions /\ Nested(calls)
          BY <1>1 DEF Functions
        <4>2. IF calls = <<>> THEN "SFW" \in {"SFW", "service"}
              ELSE \/ calls[Len(calls)] = "SFW" /\ "SFW" = "service"
                   \/ calls[Len(calls)] = "service" /\ "SFW" = "interface"
          BY <3>1
        <4>3. Nested(Append(calls, "SFW"))
          BY <4>1, <4>2, NestedPush
        <4> QED
          BY <3>2, <4>3
      <3> QED
        BY <1>1, <1>2, <1>5, <2>1, <3>3, QuietPreserves DEF Meta!StartSFW, Meta!service,
           Meta!element, InterfaceFits
    <2> QED
      BY <1>2, <1>4, <1>5, <2>1 DEF Meta!StartSFW
  <1>6. CASE Meta!StartService
    <2>1. Nested(calls')
      <3>1. calls' = Append(calls, "service") /\ "service" \in Functions /\ Nested(calls)
        BY <1>1, <1>6 DEF Meta!StartService, Meta!Enter, Functions
      <3>2. IF calls = <<>> THEN "service" \in {"SFW", "service"}
            ELSE \/ calls[Len(calls)] = "SFW" /\ "service" = "service"
                 \/ calls[Len(calls)] = "service" /\ "service" = "interface"
        <4>1. calls # <<>> => calls[Len(calls)] \in Functions
          BY <3>1 DEF Nested
        <4> QED
          BY <1>6, <4>1 DEF Meta!StartService, Meta!Level, Functions
      <3>3. Nested(Append(calls, "service"))
        BY <3>1, <3>2, NestedPush
      <3> QED
        BY <3>1, <3>3
    <2> QED
      BY <1>1, <1>2, <1>6, <2>1, QuietPreserves
      DEF Meta!StartService, Meta!service, Meta!NoTags, MetaTag, InterfaceFits
  <1>7. CASE Meta!Unexpected
    BY <1>2, <1>4, <1>7 DEF Meta!Unexpected
  <1>8. CASE Meta!Malformed
    BY <1>1, <1>4, <1>8 DEF Meta!Malformed
  <1>9. CASE Meta!EndSFW
    <2>1. calls # <<>>
      BY <1>9 DEF Meta!EndSFW, Meta!Level
    <2> QED
      BY <1>1, <1>3, <1>9, <2>1, QuietPreserves DEF Meta!EndSFW, Meta!service, Meta!element,
         InterfaceFits
  <1>10. CASE Meta!EndDocument
    BY <1>1, <1>10, QuietPreserves DEF Meta!EndDocument, Meta!service, Meta!element, InterfaceFits
  <1>11. ASSUME NEW tag \in DOMAIN Meta!NoTags,
                NEW text \in {Meta!Empty, "name", "path", "address", "_q_ipc_addr:"},
                Meta!ServiceText(tag, text)
         PROVE  MetaInv'
    <2>1. CASE tag = "ipcaddress" /\ xmlVersion = "1.0"
      BY <1>2, <1>4, <1>11, <2>1 DEF Meta!ServiceText
    <2>2. CASE ~(tag = "ipcaddress" /\ xmlVersion = "1.0") /\ text = "_q_ipc_addr:"
      BY <1>2, <1>4, <1>11, <2>2 DEF Meta!ServiceText
    <2>3. CASE ~(tag = "ipcaddress" /\ xmlVersion = "1.0") /\ text # "_q_ipc_addr:"
      <3>1. serviceTags' \in [MetaTag -> Nat]
        BY <1>1, <1>11, <2>3 DEF Meta!ServiceText, Meta!NoTags, MetaTag
      <3>2. serviceName' \in {Meta!Empty, "name"}
            /\ serviceLocation' \in {Meta!Empty, "path", "address"} /\ broken' \in BOOLEAN
        BY <1>1, <1>11, <2>3 DEF Meta!ServiceText, Meta!ReadText, Meta!Empty
      <3> QED
        BY <1>1, <1>2, <1>11, <2>3, <3>1, <3>2, QuietPreserves
        DEF Meta!ServiceText, InterfaceFits
    <2> QED
      BY <2>1, <2>2, <2>3
  <1>12. CASE Meta!EndService
    <2>1. calls # <<>>
      BY <1>12 DEF Meta!EndService, Meta!Level
    <2>2. \/ /\ \/ Meta!Fail("NO_SERVICE_NAME") \/ Meta!Fail("NO_SERVICE_PATH")
                \/ Meta!Fail("DUPLICATED_TAG") \/ Meta!Fail("MULTIPLE_SERVICE_TYPES")
                \/ Meta!Fail("NO_SERVICE_INTERFACE")
             /\ elements' = elements
          \/ /\ serviceType' = IF serviceTags["ipcaddress"] > 0
                               THEN "InterProcess" ELSE serviceType
             /\ Meta!Leave
             /\ UNCHANGED <<broken, xmlVersion, serviceName, serviceLocation,
                            serviceInterfaces, latestIndex, Meta!element, latestError,
                            outcome, elements>>
      BY <1>12 DEF Meta!EndService
    <2> QED
      BY <1>1, <1>3, <1>4, <2>1, <2>2, QuietPreserves DEF Meta!element, InterfaceFits
  <1>13. CASE Meta!StartInterface
    <2>1. Nested(calls')
      BY <1>1, <1>13, NestedPush DEF Meta!StartInterface, Meta!Enter, Functions, Meta!Level
    <2> QED
      BY <1>1, <1>2, <1>13, <2>1, QuietPreserves
      DEF Meta!StartInterface, Meta!service, Meta!NoTags, MetaTag, InterfaceFits, Meta!NoInterface
  <1>14. ASSUME NEW tag \in MetaTag \cup {"customproperty"}, NEW i, Meta!InterfaceRead(tag, i), Meta!Counted,
                i \in [name : InterfaceName \cup {<<>>}, version : DocumentVersion \cup {<<0, 0>>}, custom : BOOLEAN],
                i.version = interface.version \/ i.version \in DocumentVersion,
                tag = "version" => i.version \in DocumentVersion
         PROVE  MetaInv'
    <2>1. interfaceTags' \in [MetaTag -> Nat]
      <3>1. CASE tag = "customproperty"
        BY <1>1, <1>14, <3>1 DEF Meta!InterfaceRead
      <3>2. CASE tag # "customproperty"
        <4>1. interfaceTags[tag] + 1 \in Nat /\ tag \in MetaTag
          BY <1>1, <1>14, <3>2
        <4> QED
          BY <1>1, <1>14, <3>2, <4>1 DEF Meta!InterfaceRead
      <3> QED
        BY <3>1, <3>2
    <2>2. InterfaceFits'
      BY <1>1, <1>14 DEF Meta!InterfaceRead, InterfaceFits, MetaTag
    <2> QED
      BY <1>1, <1>2, <1>14, <2>1, <2>2, QuietPreserves DEF Meta!InterfaceRead, Meta!ReadText,
         Meta!service
  <1>15. ASSUME NEW n \in InterfaceName \cup {<<>>}, Meta!ReadInterfaceName(n) PROVE MetaInv'
    <2> DEFINE i == [interface EXCEPT !.name = n]
    <2>1. /\ i \in [name : InterfaceName \cup {<<>>}, version : DocumentVersion \cup {<<0, 0>>}, custom : BOOLEAN]
          /\ i.version = interface.version
      BY <1>1 DEF InterfaceFits
    <2> QED
      BY <1>14, <1>15, <2>1 DEF Meta!ReadInterfaceName, MetaTag
  <1>16. ASSUME NEW v \in DocumentVersion, Meta!ReadVersion(v) PROVE MetaInv'
    <2> DEFINE i == [interface EXCEPT !.version = v]
    <2>1. /\ i \in [name : InterfaceName \cup {<<>>}, version : DocumentVersion \cup {<<0, 0>>}, custom : BOOLEAN]
          /\ i.version = v
      BY <1>1 DEF InterfaceFits
    <2> QED
      BY <1>14, <1>16, <2>1 DEF Meta!ReadVersion, MetaTag
  <1>17. CASE Meta!BadVersion
    <2>1. CASE Meta!Fail("INVALID_VERSION")
      BY <1>2, <1>4, <1>17, <2>1 DEF Meta!BadVersion
    <2>2. CASE ~Meta!Fail("INVALID_VERSION")
      BY <1>1, <1>2, <1>17, <2>2, QuietPreserves
      DEF Meta!BadVersion, Meta!ReadText, Meta!service, Meta!element, InterfaceFits
    <2> QED
      BY <2>1, <2>2
  <1>18. ASSUME NEW tag \in DOMAIN Meta!NoTags, Meta!ReadOther(tag) PROVE MetaInv'
    <2>1. interface \in [name : InterfaceName \cup {<<>>}, version : DocumentVersion \cup {<<0, 0>>}, custom : BOOLEAN]
      BY <1>1 DEF InterfaceFits
    <2> QED
      BY <1>14, <1>18, <2>1 DEF Meta!ReadOther, MetaTag
  <1>19. ASSUME NEW hasKey \in BOOLEAN, Meta!ReadCustom(hasKey) PROVE MetaInv'
    <2> DEFINE i == [interface EXCEPT !.custom = TRUE]
    <2>1. /\ i \in [name : InterfaceName \cup {<<>>}, version : DocumentVersion \cup {<<0, 0>>}, custom : BOOLEAN]
          /\ i.version = interface.version
      BY <1>1 DEF InterfaceFits
    <2>2. Meta!Counted /\ (\/ Meta!Fail("INVALID_CUSTOM_TAG") \/ Meta!Fail("DUPLICATED_CUSTOM_KEY")
                           \/ Meta!InterfaceRead("customproperty", i))
      BY <1>19 DEF Meta!ReadCustom
    <2> QED
      BY <1>2, <1>4, <1>14, <2>1, <2>2
  <1> QED
    BY <1>5, <1>6, <1>7, <1>8, <1>9, <1>10, <1>11, <1>12, <1>13, <1>15, <1>16, <1>17,
       <1>18, <1>19, EndInterfacePreserves DEF Meta!Next
-----------------------------------------------------------------------------
(***************************************************************************)
(* The QML element that loads an object.                                   *)
(***************************************************************************)
Among(s, ats) == \E i \in DOMAIN s : s[i].at \in ats
\* A property that was set starts a load before the load that is interrupted goes on.
Restarts(s) ==
  \E i \in DOMAIN s : s[i].at \in {"name", "descriptor"} /\ \A j \in 1..(i - 1) : s[j].at # "start"
AllUnset == interfaceName = Loader!Unset /\ serviceDescriptor = Loader!Unset
StillLoading == status = "Loading" /\ ~lost /\ ~crashed
\* The load that is ending is not the one that is still loading.
NoneEnding(s) == ~Among(s, {"reported", "connect", "finish"})

LoadingTypes ==
  /\ status \in {"Null", "Ready", "Loading", "Error"}
  /\ serviceReply \in {"null", "pending", "deleted"}
  /\ serviceObject \in {"null", "fresh", "alive", "dying", "deleted"}
  /\ serviceManager \in BOOLEAN /\ orphans \in Nat
  /\ abandoned \in BOOLEAN /\ leaked \in BOOLEAN
  /\ stack \in Seq(Loader!Frames)
  /\ lost \in BOOLEAN /\ crashed \in BOOLEAN
LoadingState ==
  /\ LoadingTypes
  /\ StillLoading => NoneEnding(stack)
  /\ StillLoading /\ ~Among(stack, {"start", "failed"}) => serviceReply = "pending" /\ serviceManager
  /\ Loader!RequestShows
  /\ ~crashed /\ serviceReply = "pending" /\ AllUnset => ~Among(stack, {"start"}) \/ Restarts(stack)
\* Before the document is complete nothing is loaded but as it becomes so.
Incomplete ==
  ~loaderComponentComplete /\ ~crashed =>
    /\ ~Among(stack, {"start"})
    /\ \/ Among(stack, {"complete"})
       \/ /\ serviceObject = "null" /\ serviceReply = "null" /\ orphans = 0
          /\ ~abandoned /\ ~leaked
          /\ \A i \in DOMAIN stack : stack[i].at \in {"name", "descriptor"}
LoaderInv == Loader!TypeOK /\ LoadingState /\ Incomplete

LEMMA LoaderShown == LoaderInv => Loader!LoadingHasRequest /\ Loader!RequestShows
  BY DEF LoaderInv, LoadingState, Loader!LoadingHasRequest, StillLoading, Among

\* The stack of interrupted functions grows and shrinks by one.
LEMMA PushedFrame ==
  ASSUME NEW s \in Seq(Loader!Frames), NEW f \in Loader!Frames, NEW ats
  PROVE  /\ <<f>> \o s \in Seq(Loader!Frames)
         /\ Among(<<f>> \o s, ats) <=> f.at \in ats \/ Among(s, ats)
         /\ f.at \in {"name", "descriptor"} => Restarts(<<f>> \o s)
         /\ f.at # "start" /\ Restarts(s) => Restarts(<<f>> \o s)
  <1> DEFINE q == <<f>> \o s
  <1>1. /\ q \in Seq(Loader!Frames) /\ Len(q) = Len(s) + 1 /\ q[1] = f
        /\ \A i \in 1..Len(s) : q[i + 1] = s[i]
        /\ DOMAIN q = 1..(Len(s) + 1) /\ DOMAIN s = 1..Len(s) /\ Len(s) \in Nat
    OBVIOUS
  <1>2. \A i \in DOMAIN q : i = 1 \/ (i - 1 \in 1..Len(s) /\ q[i] = s[i - 1])
    <2>1. ASSUME NEW i \in DOMAIN q, i # 1 PROVE i - 1 \in 1..Len(s) /\ q[i] = s[i - 1]
      <3>1. i - 1 \in 1..Len(s) /\ (i - 1) + 1 = i
        BY <1>1, <2>1
      <3> QED
        BY <1>1, <3>1
    <2> QED
      BY <2>1
  <1> HIDE DEF q
  <1>3. Among(q, ats) <=> f.at \in ats \/ Among(s, ats)
    <2>1. ASSUME Among(q, ats) PROVE f.at \in ats \/ Among(s, ats)
      <3>1. PICK i \in DOMAIN q : q[i].at \in ats
        BY <2>1 DEF Among
      <3> QED
        BY <1>1, <1>2, <3>1 DEF Among
    <2>2. ASSUME Among(s, ats) PROVE Among(q, ats)
      <3>1. PICK i \in DOMAIN s : s[i].at \in ats
        BY <2>2 DEF Among
      <3>2. i + 1 \in DOMAIN q /\ q[i + 1] = s[i]
        BY <1>1
      <3> QED
        BY <3>1, <3>2 DEF Among
    <2>3. ASSUME f.at \in ats PROVE Among(q, ats)
      <3>1. 1 \in DOMAIN q /\ q[1].at \in ats
        BY <1>1, <2>3
      <3> QED
        BY <3>1 DEF Among
    <2> QED
      BY <2>1, <2>2, <2>3
  <1>4. ASSUME f.at \in {"name", "descriptor"} PROVE Restarts(q)
    <2>1. 1 \in DOMAIN q /\ q[1].at \in {"name", "descriptor"} /\ 1..(1 - 1) = {}
      BY <1>1, <1>4
    <2> QED
      BY <2>1 DEF Restarts
  <1>5. ASSUME f.at # "start", Restarts(s) PROVE Restarts(q)
    <2>1. PICK i \in DOMAIN s : s[i].at \in {"name", "descriptor"} /\ \A j \in 1..(i - 1) : s[j].at # "start"
      BY <1>5 DEF Restarts
    <2>2. i + 1 \in DOMAIN q /\ q[i + 1].at \in {"name", "descriptor"}
      BY <1>1, <2>1
    <2>3. ASSUME NEW j \in 1..((i + 1) - 1) PROVE q[j].at # "start"
      <3>1. j \in DOMAIN q /\ (j = 1 \/ j - 1 \in 1..(i - 1))
        BY <1>1, <2>1
      <3> QED
        BY <1>1, <1>2, <1>5, <2>1, <3>1
    <2> QED
      BY <2>2, <2>3 DEF Restarts
  <1> QED
    BY <1>1, <1>3, <1>4, <1>5 DEF q

LEMMA PoppedFrame ==
  ASSUME NEW s \in Seq(Loader!Frames), s # <<>>, NEW ats
  PROVE  /\ Tail(s) \in Seq(Loader!Frames) /\ Head(s) \in Loader!Frames
         /\ Among(s, ats) <=> Head(s).at \in ats \/ Among(Tail(s), ats)
         /\ Restarts(s) /\ Head(s).at \notin {"name", "descriptor"} => Head(s).at # "start" /\ Restarts(Tail(s))
         /\ \A i \in DOMAIN Tail(s) : i + 1 \in DOMAIN s /\ Tail(s)[i] = s[i + 1]
  <1> DEFINE q == Tail(s)
  <1>1. /\ q \in Seq(Loader!Frames) /\ Head(s) \in Loader!Frames /\ Head(s) = s[1] /\ 1 \in DOMAIN s
        /\ DOMAIN q = 1..(Len(s) - 1) /\ DOMAIN s = 1..Len(s) /\ Len(s) \in Nat
        /\ \A i \in DOMAIN q : i + 1 \in DOMAIN s /\ q[i] = s[i + 1]
    OBVIOUS
  <1>2. \A i \in DOMAIN s : i = 1 \/ (i - 1 \in DOMAIN q /\ s[i] = q[i - 1])
    <2>1. ASSUME NEW i \in DOMAIN s, i # 1 PROVE i - 1 \in DOMAIN q /\ s[i] = q[i - 1]
      <3>1. i - 1 \in DOMAIN q /\ (i - 1) + 1 = i
        BY <1>1, <2>1
      <3> QED
        BY <1>1, <3>1
    <2> QED
      BY <2>1
  <1> HIDE DEF q
  <1>3. Among(s, ats) <=> Head(s).at \in ats \/ Among(q, ats)
    <2>1. ASSUME Among(s, ats) PROVE Head(s).at \in ats \/ Among(q, ats)
      <3>1. PICK i \in DOMAIN s : s[i].at \in ats
        BY <2>1 DEF Among
      <3> QED
        BY <1>1, <1>2, <3>1 DEF Among
    <2>2. ASSUME Among(q, ats) PROVE Among(s, ats)
      <3>1. PICK i \in DOMAIN q : q[i].at \in ats
        BY <2>2 DEF Among
      <3> QED
        BY <1>1, <3>1 DEF Among
    <2> QED
      BY <1>1, <2>1, <2>2 DEF Among
  <1>4. ASSUME Restarts(s), Head(s).at \notin {"name", "descriptor"} PROVE Head(s).at # "start" /\ Restarts(q)
    <2>1. PICK i \in DOMAIN s : s[i].at \in {"name", "descriptor"} /\ \A j \in 1..(i - 1) : s[j].at # "start"
      BY <1>4 DEF Restarts
    <2>2. i # 1 /\ i - 1 \in DOMAIN q /\ s[i] = q[i - 1] /\ i \in Nat
      BY <1>1, <1>2, <1>4, <2>1
    <2>3. 1 \in 1..(i - 1)
      BY <1>1, <2>2
    <2>4. ASSUME NEW j \in 1..((i - 1) - 1) PROVE q[j].at # "start"
      <3>1. j \in DOMAIN q /\ j + 1 \in 1..(i - 1)
        BY <1>1, <2>2
      <3> QED
        BY <1>1, <2>1, <3>1
    <2> QED
      BY <1>1, <2>1, <2>2, <2>3, <2>4 DEF Restarts
  <1> QED
    BY <1>1, <1>3, <1>4 DEF q

LEMMA FrameFits ==
  ASSUME NEW at \in {"name", "descriptor", "start", "complete", "fault", "failed", "reported", "connect", "finish"},
         NEW said \in BOOLEAN, NEW had \in BOOLEAN
  PROVE  Loader!Frame(at, said, had) \in Loader!Frames /\ Loader!Frame(at, said, had).at = at
  BY DEF Loader!Frame, Loader!Frames, Loader!Ending

\* What a load may leave of the frames below it.
FramesKept(rest) ==
  /\ Among(stack', {"start"}) => Among(rest, {"start"})
  /\ Among(rest, {"complete"}) => Among(stack', {"complete"})

LEMMA AnswerKeeps ==
  ASSUME LoadingTypes, NEW obj \in {"fresh", "null"}, NEW served \in BOOLEAN,
         NEW rest \in Seq(Loader!Frames), StillLoading => NoneEnding(rest),
         Loader!Answer(obj, served, rest), orphans' \in Nat,
         UNCHANGED <<interfaceName, serviceDescriptor>>
  PROVE  LoadingState' /\ FramesKept(rest)
  <1> DEFINE had == serviceObject # "null"
  <1>1. had \in BOOLEAN /\ (status # "Ready") \in BOOLEAN /\ (status # "Error") \in BOOLEAN
    OBVIOUS
  <1>2. /\ leaked' \in BOOLEAN /\ abandoned' \in BOOLEAN /\ UNCHANGED <<lost, crashed>>
        /\ serviceReply' = "null" /\ serviceManager' = served
        /\ serviceObject' \in {"fresh", "null"}
        /\ \E at \in {"connect", "reported", "failed"}, said \in BOOLEAN :
             /\ stack' = <<Loader!Frame(at, said, had)>> \o rest
             /\ at = "connect" => status' = "Ready"
             /\ at = "reported" => status' = "Error"
             /\ at = "failed" => status' = status
    <2>1. /\ leaked' \in BOOLEAN /\ abandoned' \in BOOLEAN /\ UNCHANGED <<lost, crashed>>
          /\ serviceReply' = "null" /\ serviceManager' = served
          /\ serviceObject' \in {"fresh", "null"}
      BY DEF Loader!Answer, LoadingTypes
    <2>2. \/ /\ status' = "Ready"
             /\ stack' = <<Loader!Frame("connect", status # "Ready", had)>> \o rest
          \/ /\ status' = "Error"
             /\ stack' = <<Loader!Frame("reported", status # "Error", had)>> \o rest
          \/ /\ status' = status
             /\ stack' = <<Loader!Frame("failed", TRUE, had)>> \o rest
      BY DEF Loader!Answer
    <2> QED
      BY <1>1, <2>1, <2>2
  <1> HIDE DEF had
  <1>3. PICK at \in {"connect", "reported", "failed"}, said \in BOOLEAN :
             /\ stack' = <<Loader!Frame(at, said, had)>> \o rest
             /\ at = "connect" => status' = "Ready"
             /\ at = "reported" => status' = "Error"
             /\ at = "failed" => status' = status
    BY <1>2
  <1>4. Loader!Frame(at, said, had) \in Loader!Frames /\ Loader!Frame(at, said, had).at = at
    BY <1>1, FrameFits
  <1>5. stack' \in Seq(Loader!Frames) /\ FramesKept(rest)
        /\ (at = "failed" => Among(stack', {"start", "failed"}) /\ (NoneEnding(rest) => NoneEnding(stack')))
    BY <1>3, <1>4, PushedFrame DEF FramesKept, NoneEnding
  <1>6. LoadingTypes'
    BY <1>2, <1>3, <1>5 DEF LoadingTypes
  <1>7. StillLoading' => at = "failed" /\ StillLoading
    BY <1>2, <1>3 DEF StillLoading
  <1>8. Loader!RequestShows'
    BY <1>2 DEF Loader!RequestShows
  <1> QED
    BY <1>2, <1>5, <1>6, <1>7, <1>8 DEF LoadingState, NoneEnding, Among, Restarts

LEMMA CrashKeeps ==
  ASSUME LoadingTypes, Loader!RequestShows, NEW rest \in Seq(Loader!Frames), Loader!Crash(rest)
  PROVE  LoadingState' /\ crashed' /\ FramesKept(rest)
  BY DEF Loader!Crash, Loader!objects, Loader!requests, LoadingState, LoadingTypes, StillLoading,
     Loader!RequestShows, FramesKept

LEMMA FinishKeeps ==
  ASSUME LoadingTypes, Loader!RequestShows, NEW reply \in {"null", "pending", "deleted"},
         NEW served \in BOOLEAN, NEW left \in Nat,
         NEW rest \in Seq(Loader!Frames), StillLoading => NoneEnding(rest),
         reply = "pending" => status \in {"Loading", "Error"},
         reply = "pending" => \/ ~AllUnset
                              \/ ~Among(rest, {"start"}) \/ Restarts(rest),
         reply = "pending" /\ StillLoading /\ ~Among(rest, {"start", "failed"}) => served,
         Loader!FinishUnasked(reply, served, left, rest),
         UNCHANGED <<interfaceName, serviceDescriptor>>
  PROVE  LoadingState' /\ FramesKept(rest)
  <1>1. CASE reply = "deleted" \/ (reply = "null" /\ ~served)
    <2>1. Loader!Crash(rest)
      BY <1>1 DEF Loader!FinishUnasked
    <2> QED
      BY <2>1, CrashKeeps
  <1>2. CASE reply = "null" /\ served
    <2>1. orphans' = left /\ Loader!Answer("fresh", served, rest)
      BY <1>2 DEF Loader!FinishUnasked
    <2> QED
      BY <2>1, AnswerKeeps
  <1>3. CASE reply = "pending"
    <2>1. /\ orphans' = left /\ serviceReply' = reply /\ serviceManager' = served /\ stack' = rest
          /\ UNCHANGED <<status, serviceObject, abandoned, leaked, lost, crashed>>
      BY <1>3 DEF Loader!FinishUnasked, Loader!objects
    <2>2. LoadingTypes' /\ FramesKept(rest)
      BY <2>1 DEF LoadingTypes, FramesKept
    <2>3. StillLoading' = StillLoading /\ AllUnset' = AllUnset
      BY <2>1 DEF StillLoading, AllUnset
    <2>4. Loader!RequestShows'
      BY <1>3, <2>1 DEF Loader!RequestShows
    <2>5. /\ StillLoading => NoneEnding(stack')
          /\ StillLoading /\ ~Among(stack', {"start", "failed"}) => serviceReply' = "pending" /\ serviceManager'
          /\ AllUnset => ~Among(stack', {"start"}) \/ Restarts(stack')
      BY <1>3, <2>1
    <2> QED
      BY <2>2, <2>3, <2>4, <2>5 DEF LoadingState, NoneEnding, Among, Restarts
  <1> QED
    BY <1>1, <1>2, <1>3

LEMMA LoadKeeps ==
  ASSUME LoadingTypes, Loader!RequestShows, NEW reply \in {"null", "pending", "deleted"},
         NEW rest \in Seq(Loader!Frames), StillLoading => NoneEnding(rest),
         reply = "pending" => status \in {"Loading", "Error"} /\ ~AllUnset,
         Loader!Load(reply, rest),
         UNCHANGED <<interfaceName, serviceDescriptor>>
  PROVE  LoadingState' /\ FramesKept(rest)
  <1>1. CASE AllUnset
    <2>1. /\ status' = "Null" /\ serviceReply' = reply /\ stack' = rest /\ reply # "pending"
          /\ UNCHANGED <<serviceObject, abandoned, leaked, serviceManager, orphans, lost, crashed>>
      BY <1>1 DEF Loader!Load, AllUnset, Loader!objects
    <2>2. LoadingTypes' /\ FramesKept(rest)
      BY <2>1 DEF LoadingTypes, FramesKept
    <2> QED
      BY <2>1, <2>2 DEF LoadingState, StillLoading, Loader!RequestShows
  <1>2. CASE ~AllUnset /\ asynchronous
    <2>1. /\ serviceReply' = Loader!Request /\ serviceManager' = TRUE /\ status' = "Loading"
          /\ orphans' \in {orphans, orphans + 1}
          /\ lost' = \/ Loader!Request = "null"
                     \/ \E i \in DOMAIN rest : rest[i].at \in Loader!Ending
          /\ stack' = rest
          /\ UNCHANGED <<serviceObject, abandoned, leaked, crashed>>
      BY <1>2 DEF Loader!Load, AllUnset, Loader!objects
    <2>2. serviceReply' \in {"null", "pending"} /\ (~lost' => serviceReply' = "pending")
      BY <2>1 DEF Loader!Request
    <2>3. LoadingTypes' /\ FramesKept(rest)
      <3>1. lost' \in BOOLEAN /\ orphans' \in Nat
        BY <2>1 DEF LoadingTypes
      <3> QED
        BY <2>1, <2>2, <3>1 DEF LoadingTypes, FramesKept
    <2>4. ~lost' => NoneEnding(stack')
      BY <2>1 DEF NoneEnding, Among, Loader!Ending
    <2>5. ~AllUnset' /\ Loader!RequestShows'
      BY <1>2, <2>1 DEF AllUnset, Loader!RequestShows
    <2> QED
      BY <2>1, <2>2, <2>3, <2>4, <2>5 DEF LoadingState, StillLoading, NoneEnding, Among
  <1>3. CASE ~AllUnset /\ ~asynchronous
    <2>1. Loader!FinishUnasked(reply, TRUE, orphans, rest)
      BY <1>3 DEF Loader!Load, AllUnset
    <2>2. orphans \in Nat
      BY DEF LoadingTypes
    <2> QED
      BY <1>3, <2>1, <2>2, FinishKeeps
  <1> QED
    BY <1>1, <1>2, <1>3

LEMMA StartKeeps ==
  ASSUME LoadingTypes, Loader!RequestShows, NEW rest \in Seq(Loader!Frames),
         StillLoading => NoneEnding(rest), Loader!StartLoading(rest),
         UNCHANGED <<interfaceName, serviceDescriptor>>
  PROVE  LoadingState' /\ (serviceObject = "null" => FramesKept(rest))
  <1> DEFINE reply == IF serviceReply = "null" THEN "null" ELSE "deleted"
  <1>1. CASE serviceReply = "deleted" \/ serviceObject = "deleted"
    <2>1. Loader!Crash(rest)
      BY <1>1 DEF Loader!StartLoading
    <2> QED
      BY <2>1, CrashKeeps
  <1>2. CASE serviceReply # "deleted" /\ serviceObject \notin {"deleted", "null"}
    <2>1. /\ abandoned' \in BOOLEAN
          /\ serviceObject' = "null" /\ serviceReply' \in {"null", "deleted"}
          /\ stack' = <<Loader!Frame("start", TRUE, FALSE)>> \o rest
          /\ UNCHANGED <<status, leaked, serviceManager, orphans, lost, crashed>>
      BY <1>2 DEF Loader!StartLoading, LoadingTypes
    <2>2. Loader!Frame("start", TRUE, FALSE) \in Loader!Frames /\ Loader!Frame("start", TRUE, FALSE).at = "start"
      BY FrameFits
    <2>3. /\ stack' \in Seq(Loader!Frames) /\ Among(stack', {"start", "failed"})
          /\ NoneEnding(rest) => NoneEnding(stack')
      BY <2>1, <2>2, PushedFrame DEF NoneEnding
    <2>4. LoadingTypes' /\ Loader!RequestShows'
      BY <2>1, <2>3 DEF LoadingTypes, Loader!RequestShows
    <2>5. StillLoading' => StillLoading
      BY <2>1 DEF StillLoading
    <2> QED
      BY <1>2, <2>1, <2>3, <2>4, <2>5 DEF LoadingState, NoneEnding, Among
  <1>3. CASE serviceReply # "deleted" /\ serviceObject = "null"
    <2>1. Loader!Load(reply, rest)
      BY <1>3 DEF Loader!StartLoading
    <2>2. reply \in {"null", "deleted"}
      OBVIOUS
    <2> HIDE DEF reply
    <2> QED
      BY <2>1, <2>2, LoadKeeps
  <1> QED
    BY <1>1, <1>2, <1>3 DEF LoadingTypes

LEMMA LoaderInitInv == Loader!Init => LoaderInv
  <1> SUFFICES ASSUME Loader!Init PROVE LoaderInv
    OBVIOUS
  <1> USE DEF Loader!Init
  <1>1. loaderChanges \in 0..MaxLoaderChanges /\ stack \in Seq(Loader!Frames) /\ DOMAIN stack = {}
    BY LoaderAssumption
  <1>2. Loader!TypeOK /\ LoadingTypes
    BY <1>1 DEF Loader!TypeOK, LoadingTypes
  <1>3. \A ats : ~Among(stack, ats)
    BY <1>1 DEF Among
  <1> QED
    BY <1>1, <1>2, <1>3 DEF LoaderInv, LoadingState, Loader!RequestShows, StillLoading, Incomplete

\* A property is set: a function that will start a load is interrupted by its signal.
LEMMA SetKeeps ==
  ASSUME LoaderInv, NEW at \in {"name", "descriptor"}, Loader!Change, Loader!Changed(at),
         interfaceName' \in LoaderName \cup {Loader!Unset},
         serviceDescriptor' \in LoaderDescriptor \cup {Loader!Unset}
  PROVE  LoaderInv'
  <1> USE LoaderAssumption DEF LoaderInv
  <1>1. /\ stack' = <<Loader!Frame(at, TRUE, FALSE)>> \o stack
        /\ UNCHANGED <<background, asynchronous, loaderComponentComplete, status, serviceObject, abandoned, leaked,
                       serviceReply, serviceManager, orphans, lost, crashed>>
    BY DEF Loader!Changed, Loader!objects, Loader!requests
  <1>2. /\ Loader!Frame(at, TRUE, FALSE) \in Loader!Frames /\ Loader!Frame(at, TRUE, FALSE).at = at
        /\ stack \in Seq(Loader!Frames)
    <2>1. at \in {"name", "descriptor", "start", "complete", "fault", "failed", "reported", "connect", "finish"}
          /\ TRUE \in BOOLEAN /\ FALSE \in BOOLEAN
      OBVIOUS
    <2>2. Loader!Frame(at, TRUE, FALSE) \in Loader!Frames /\ Loader!Frame(at, TRUE, FALSE).at = at
      BY ONLY <2>1, FrameFits
    <2> QED
      BY <2>2 DEF LoadingState, LoadingTypes
  <1>3. /\ stack' \in Seq(Loader!Frames) /\ Restarts(stack')
        /\ NoneEnding(stack) => NoneEnding(stack')
        /\ Among(stack', {"start", "failed"}) <=> Among(stack, {"start", "failed"})
        /\ Among(stack', {"start"}) <=> Among(stack, {"start"})
        /\ Among(stack, {"complete"}) => Among(stack', {"complete"})
    BY <1>1, <1>2, PushedFrame DEF NoneEnding
  <1>4. ASSUME \A i \in DOMAIN stack : stack[i].at \in {"name", "descriptor"}
        PROVE  \A i \in DOMAIN stack' : stack'[i].at \in {"name", "descriptor"}
    <2>1. ~Among(stack, Loader!Ending \cup {"start", "complete", "fault"})
      BY <1>4 DEF Among, Loader!Ending
    <2>2. ~Among(stack', Loader!Ending \cup {"start", "complete", "fault"})
      BY <1>1, <1>2, <2>1, PushedFrame DEF Loader!Ending
    <2>3. \A i \in DOMAIN stack' : stack'[i] \in Loader!Frames
      BY <1>3
    <2> QED
      BY <2>2, <2>3 DEF Among, Loader!Ending, Loader!Frames
  <1>5. loaderChanges' \in 0..MaxLoaderChanges
    BY DEF Loader!Change, Loader!TypeOK
  <1>6. Loader!TypeOK'
    <2>1. /\ UNCHANGED <<background, asynchronous, loaderComponentComplete, status, serviceObject, abandoned, leaked,
                         serviceReply, serviceManager, orphans, lost, crashed>>
          /\ stack' \in Seq(Loader!Frames)
      BY <1>1, <1>3
    <2>2. /\ interfaceName' \in LoaderName \cup {Loader!Unset}
          /\ serviceDescriptor' \in LoaderDescriptor \cup {Loader!Unset}
      OBVIOUS
    <2>3. Loader!TypeOK
      OBVIOUS
    <2> HIDE DEF Loader!Unset
    <2> QED
      BY ONLY <1>5, <2>1, <2>2, <2>3 DEF Loader!TypeOK
  <1>7. LoadingState'
    <2>1. LoadingTypes' /\ Loader!RequestShows'
      BY <1>1, <1>3 DEF LoadingState, LoadingTypes, Loader!RequestShows
    <2>2. StillLoading' = StillLoading
      BY <1>1 DEF StillLoading
    <2> QED
      BY <1>1, <1>3, <2>1, <2>2 DEF LoadingState, NoneEnding, Among, Restarts
  <1>8. Incomplete'
    BY <1>1, <1>3, <1>4 DEF Incomplete, Among
  <1> QED
    BY <1>6, <1>7, <1>8

\* The handlers of a signal return.
LEMMA ReturnKeeps == ASSUME LoaderInv, Loader!Return PROVE LoaderInv'
  <1> USE LoaderAssumption DEF LoaderInv
  <1> DEFINE at == Head(stack).at
             had == Head(stack).had
             rest == Tail(stack)
  <1>1. /\ ~crashed /\ stack # <<>>
        /\ UNCHANGED <<background, interfaceName, serviceDescriptor, asynchronous, loaderChanges>>
        /\ loaderComponentComplete' = (loaderComponentComplete \/ at = "complete")
    BY DEF Loader!Return
  <1>2. /\ stack \in Seq(Loader!Frames) /\ LoadingTypes /\ Loader!RequestShows
        /\ at \in {"name", "descriptor", "start", "complete", "fault", "failed", "reported", "connect", "finish"}
        /\ had \in BOOLEAN /\ rest \in Seq(Loader!Frames)
    <2>1. stack \in Seq(Loader!Frames) /\ LoadingTypes /\ Loader!RequestShows
      BY DEF LoadingState, LoadingTypes
    <2>2. Head(stack) \in Loader!Frames /\ rest \in Seq(Loader!Frames)
      BY <1>1, <2>1
    <2> QED
      BY <2>1, <2>2 DEF Loader!Frames, Loader!Ending
  <1>3. /\ NoneEnding(stack) <=> at \notin {"reported", "connect", "finish"} /\ NoneEnding(rest)
        /\ Among(stack, {"start", "failed"}) <=> at \in {"start", "failed"} \/ Among(rest, {"start", "failed"})
        /\ Among(stack, {"start"}) <=> at = "start" \/ Among(rest, {"start"})
        /\ Among(stack, {"complete"}) <=> at = "complete" \/ Among(rest, {"complete"})
        /\ Restarts(stack) /\ at \notin {"name", "descriptor"} => at # "start" /\ Restarts(rest)
        /\ \A i \in DOMAIN rest : i + 1 \in DOMAIN stack /\ rest[i] = stack[i + 1]
        /\ 1 \in DOMAIN stack /\ Head(stack) = stack[1]
    BY <1>1, <1>2, PoppedFrame DEF NoneEnding
  <1>4. StillLoading => NoneEnding(rest) /\ at \notin {"reported", "connect", "finish"}
    BY <1>3 DEF LoadingState
  \* What the frame does, and what is left when it has.
  <1>5. /\ at = "name" => \/ Loader!StartLoading(rest) /\ loaderComponentComplete
                          \/ Loader!Idle(rest) /\ (loaderComponentComplete => ~AllUnset)
        /\ at = "descriptor" => \/ Loader!StartLoading(rest) /\ loaderComponentComplete
                                \/ Loader!Idle(rest) /\ ~loaderComponentComplete
        /\ at = "start" => Loader!Load(serviceReply, rest)
        /\ at = "complete" => Loader!Idle(rest)
        /\ at = "failed" => Loader!Fail(had, rest)
        /\ at = "reported" => Loader!Tell(had, rest)
        /\ at = "connect" => Loader!Connect(had, rest)
        /\ at = "finish" => Loader!DeleteManager(rest)
        /\ at = "fault" => Loader!DeleteFaulty(rest)
    BY DEF Loader!Return, AllUnset
  <1> HIDE DEF at, had, rest
  \* A frame that ends leaves those below as they are.
  <1>6. ASSUME stack' = rest, at # "start", at # "failed", LoadingTypes',
               UNCHANGED <<status, serviceReply, orphans, lost, crashed>>,
               serviceManager' = serviceManager \/ at = "finish",
               at \in {"name", "descriptor"} => ~loaderComponentComplete \/ ~AllUnset
        PROVE  LoadingState'
    <2>1. StillLoading' = StillLoading /\ AllUnset' = AllUnset
      BY <1>1, <1>6 DEF StillLoading, AllUnset
    <2>2. Loader!RequestShows'
      BY <1>2, <1>6 DEF Loader!RequestShows
    <2>3. StillLoading => NoneEnding(stack')
      BY <1>4, <1>6
    <2>4. StillLoading /\ ~Among(stack', {"start", "failed"}) => serviceReply' = "pending" /\ serviceManager'
      BY <1>3, <1>4, <1>6 DEF LoadingState
    <2>5. ~crashed /\ serviceReply = "pending" /\ AllUnset => ~Among(stack', {"start"}) \/ Restarts(stack')
      <3>1. CASE at \in {"name", "descriptor"}
        BY <1>1, <1>3, <1>6, <3>1 DEF Incomplete
      <3>2. CASE at \notin {"name", "descriptor"}
        BY <1>3, <1>6, <3>2 DEF LoadingState
      <3> QED
        BY <3>1, <3>2
    <2> QED
      BY <1>6, <2>1, <2>2, <2>3, <2>4, <2>5 DEF LoadingState, NoneEnding, Among, Restarts
  <1>7. ASSUME stack' = rest,
               UNCHANGED <<serviceReply, orphans, crashed>>,
               UNCHANGED <<serviceObject, abandoned, leaked>> \/ at \notin {"name", "descriptor"}
        PROVE  Incomplete'
    <2> SUFFICES ASSUME ~loaderComponentComplete, at # "complete" PROVE
                   /\ ~Among(stack', {"start"})
                   /\ \/ Among(stack', {"complete"})
                      \/ /\ serviceObject' = "null" /\ serviceReply' = "null" /\ orphans' = 0
                         /\ ~abandoned' /\ ~leaked'
                         /\ \A i \in DOMAIN stack' : stack'[i].at \in {"name", "descriptor"}
      BY <1>1 DEF Incomplete, Among
    <2>1. ~Among(stack', {"start"})
      BY <1>1, <1>3, <1>7 DEF Incomplete
    <2>2. CASE Among(stack, {"complete"})
      BY <1>3, <1>7, <2>1, <2>2
    <2>3. CASE ~Among(stack, {"complete"})
      <3>1. /\ serviceObject = "null" /\ serviceReply = "null" /\ orphans = 0 /\ ~abandoned /\ ~leaked
            /\ \A i \in DOMAIN stack : stack[i].at \in {"name", "descriptor"}
        BY <1>1, <2>3 DEF Incomplete
      <3>2. at \in {"name", "descriptor"}
        BY <1>3, <3>1 DEF at
      <3> QED
        BY <1>3, <1>7, <2>1, <3>1, <3>2
    <2> QED
      BY <2>2, <2>3
  <1>8. ASSUME Loader!Idle(rest), at \in {"name", "descriptor", "complete"},
               at \in {"name", "descriptor"} => ~loaderComponentComplete \/ ~AllUnset
        PROVE  LoadingState' /\ Incomplete'
    <2>1. /\ stack' = rest
          /\ UNCHANGED <<status, serviceReply, serviceManager, orphans, lost, crashed, serviceObject, abandoned, leaked>>
      BY <1>8 DEF Loader!Idle, Loader!objects, Loader!requests
    <2>2. LoadingTypes'
      BY <1>2, <2>1 DEF LoadingTypes
    <2> QED
      BY <1>6, <1>7, <1>8, <2>1, <2>2
  \* Once the document is complete the rest does not matter.
  <1>9. ASSUME LoadingState', loaderComponentComplete PROVE LoadingState' /\ Incomplete'
    BY <1>1, <1>9 DEF Incomplete
  <1>10. CASE at = "name"
    <2>1. ASSUME Loader!StartLoading(rest), loaderComponentComplete PROVE LoadingState' /\ Incomplete'
      BY <1>1, <1>2, <1>4, <1>9, <2>1, StartKeeps
    <2>2. ASSUME Loader!Idle(rest), loaderComponentComplete => ~AllUnset PROVE LoadingState' /\ Incomplete'
      BY <1>8, <1>10, <2>2
    <2>3. LoadingState' /\ Incomplete'
      BY <1>5, <1>10, <2>1, <2>2
    <2> QED
      BY <1>1, <2>3 DEF Loader!TypeOK, LoadingState, LoadingTypes
  <1>11. CASE at = "descriptor"
    <2>1. ASSUME Loader!StartLoading(rest), loaderComponentComplete PROVE LoadingState' /\ Incomplete'
      BY <1>1, <1>2, <1>4, <1>9, <2>1, StartKeeps
    <2>2. ASSUME Loader!Idle(rest), ~loaderComponentComplete PROVE LoadingState' /\ Incomplete'
      BY <1>8, <1>11, <2>2
    <2>3. LoadingState' /\ Incomplete'
      BY <1>5, <1>11, <2>1, <2>2
    <2> QED
      BY <1>1, <2>3 DEF Loader!TypeOK, LoadingState, LoadingTypes
  <1>12. CASE at = "start"
    <2>1. Loader!Load(serviceReply, rest) /\ serviceReply \in {"null", "pending", "deleted"}
      BY <1>2, <1>5, <1>12 DEF LoadingTypes
    <2>2. loaderComponentComplete
      BY <1>1, <1>3, <1>12 DEF Incomplete
    <2>3. serviceReply = "pending" => status \in {"Loading", "Error"} /\ ~AllUnset
      <3>1. ~Restarts(stack) /\ Among(stack, {"start"})
        BY <1>3, <1>12
      <3> QED
        BY <1>1, <1>2, <3>1 DEF LoadingState, Loader!RequestShows
    <2>4. LoadingState' /\ Incomplete'
      BY <1>1, <1>2, <1>4, <1>9, <2>1, <2>2, <2>3, LoadKeeps
    <2> QED
      BY <1>1, <2>4 DEF Loader!TypeOK, LoadingState, LoadingTypes
  <1>13. CASE at = "complete"
    <2>1. LoadingState' /\ Incomplete'
      BY <1>5, <1>8, <1>13
    <2> QED
      BY <1>1, <2>1 DEF Loader!TypeOK, LoadingState, LoadingTypes
  \* A step of the end of a load goes on with the next, unless the process crashes.
  <1>14. ASSUME NEW next \in {"reported", "finish"}, NEW said \in BOOLEAN,
                stack' = <<Loader!Frame(next, said, had)>> \o rest,
                at \in {"failed", "reported", "connect"},
                status' = "Error" \/ (status' = status /\ at # "failed"),
                UNCHANGED <<serviceReply, serviceManager, orphans, lost, crashed, abandoned, leaked>>,
                serviceObject' \in {serviceObject, "alive"}
         PROVE  LoadingState' /\ Incomplete'
    <2>1. Loader!Frame(next, said, had) \in Loader!Frames /\ Loader!Frame(next, said, had).at = next
      BY <1>2, FrameFits
    <2>2. /\ stack' \in Seq(Loader!Frames)
          /\ Among(stack', {"start"}) <=> Among(rest, {"start"})
          /\ Among(stack', {"complete"}) <=> Among(rest, {"complete"})
          /\ Restarts(rest) => Restarts(stack')
      BY <1>2, <1>14, <2>1, PushedFrame
    <2>3. LoadingTypes'
      BY <1>2, <1>14, <2>2 DEF LoadingTypes
    <2>4. ~StillLoading'
      <3>1. StillLoading => at = "failed"
        BY <1>4, <1>14
      <3> QED
        BY <1>14, <3>1 DEF StillLoading
    <2>5. Loader!RequestShows' /\ AllUnset' = AllUnset
      BY <1>1, <1>2, <1>14 DEF Loader!RequestShows, AllUnset
    <2>6. ~crashed /\ serviceReply = "pending" /\ AllUnset => ~Among(stack', {"start"}) \/ Restarts(stack')
      BY <1>3, <1>14, <2>2 DEF LoadingState
    <2>7. LoadingState'
      BY <1>14, <2>3, <2>4, <2>5, <2>6 DEF LoadingState, Among, Restarts
    <2>8. Incomplete'
      <3>1. ASSUME ~loaderComponentComplete PROVE ~Among(stack', {"start"}) /\ Among(stack', {"complete"})
        <4>1. ~Among(stack, {"start"})
          BY <1>1, <3>1 DEF Incomplete
        <4>2. Among(stack, {"complete"})
          BY <1>1, <1>3, <1>14, <3>1 DEF Incomplete, at
        <4> QED
          BY <1>3, <1>14, <2>2, <4>1, <4>2
      <3> QED
        BY <1>1, <3>1 DEF Incomplete, Among
    <2> QED
      BY <2>7, <2>8
  <1>15. CASE at = "failed"
    <2>1. /\ status' = "Error"
          /\ stack' = <<Loader!Frame("reported", status # "Error", had)>> \o rest
          /\ UNCHANGED <<serviceObject, serviceReply, serviceManager, orphans, lost, crashed, abandoned, leaked>>
      BY <1>5, <1>15 DEF Loader!Fail, Loader!objects, Loader!requests
    <2>2. (status # "Error") \in BOOLEAN
      OBVIOUS
    <2>3. LoadingState' /\ Incomplete'
      BY <1>14, <1>15, <2>1, <2>2
    <2> QED
      BY <1>1, <2>3 DEF Loader!TypeOK, LoadingState, LoadingTypes
  <1>16. CASE at = "reported"
    <2>1. /\ stack' = <<Loader!Frame("finish", had \/ serviceObject # "null", had)>> \o rest
          /\ UNCHANGED <<status, serviceObject, serviceReply, serviceManager, orphans, lost, crashed, abandoned, leaked>>
      BY <1>5, <1>16 DEF Loader!Tell, Loader!objects, Loader!requests
    <2>2. (had \/ serviceObject # "null") \in BOOLEAN
      BY <1>2
    <2>3. LoadingState' /\ Incomplete'
      BY <1>14, <1>16, <2>1, <2>2
    <2> QED
      BY <1>1, <2>3 DEF Loader!TypeOK, LoadingState, LoadingTypes
  <1>17. CASE at = "connect"
    <2>1. CASE serviceObject = "deleted"
      <3>1. Loader!Crash(rest)
        BY <1>5, <1>17, <2>1 DEF Loader!Connect
      <3>2. LoadingState' /\ crashed'
        BY <1>2, <3>1, CrashKeeps
      <3>3. Incomplete'
        BY <3>2 DEF Incomplete
      <3> QED
        BY <1>1, <3>2, <3>3 DEF Loader!TypeOK, LoadingState, LoadingTypes
    <2>2. CASE serviceObject # "deleted"
      <3>1. /\ stack' = <<Loader!Frame("finish", had \/ serviceObject # "null", had)>> \o rest
            /\ serviceObject' \in {serviceObject, "alive"}
            /\ UNCHANGED <<status, serviceReply, serviceManager, orphans, lost, crashed, abandoned, leaked>>
        BY <1>5, <1>17, <2>2 DEF Loader!Connect, Loader!requests
      <3>2. (had \/ serviceObject # "null") \in BOOLEAN
        BY <1>2
      <3>3. LoadingState' /\ Incomplete'
        BY <1>14, <1>17, <3>1, <3>2
      <3> QED
        BY <1>1, <3>3 DEF Loader!TypeOK, LoadingState, LoadingTypes
    <2> QED
      BY <2>1, <2>2
  <1>18. CASE at = "finish"
    <2>1. /\ serviceManager' = FALSE /\ stack' = rest
          /\ UNCHANGED <<status, serviceObject, abandoned, leaked, serviceReply, orphans, lost, crashed>>
      BY <1>5, <1>18 DEF Loader!DeleteManager, Loader!objects
    <2>2. LoadingTypes'
      BY <1>2, <2>1 DEF LoadingTypes
    <2>3. LoadingState' /\ Incomplete'
      BY <1>6, <1>7, <1>18, <2>1, <2>2
    <2> QED
      BY <1>1, <2>3 DEF Loader!TypeOK, LoadingState, LoadingTypes
  <1>19. CASE at = "fault"
    <2>1. CASE serviceObject \in {"null", "deleted"}
      <3>1. Loader!Crash(rest)
        BY <1>5, <1>19, <2>1 DEF Loader!DeleteFaulty
      <3>2. LoadingState' /\ crashed'
        BY <1>2, <3>1, CrashKeeps
      <3>3. Incomplete'
        BY <3>2 DEF Incomplete
      <3> QED
        BY <1>1, <3>2, <3>3 DEF Loader!TypeOK, LoadingState, LoadingTypes
    <2>2. CASE serviceObject \notin {"null", "deleted"}
      <3>1. /\ serviceObject' \in {serviceObject, "dying"} /\ stack' = rest
            /\ UNCHANGED <<status, abandoned, leaked, serviceReply, serviceManager, orphans, lost, crashed>>
        BY <1>5, <1>19, <2>2 DEF Loader!DeleteFaulty, Loader!requests
      <3>2. LoadingTypes'
        BY <1>2, <3>1 DEF LoadingTypes
      <3>3. LoadingState' /\ Incomplete'
        BY <1>6, <1>7, <1>19, <3>1, <3>2
      <3> QED
        BY <1>1, <3>3 DEF Loader!TypeOK, LoadingState, LoadingTypes
    <2> QED
      BY <2>1, <2>2
  <1> QED
    BY <1>2, <1>10, <1>11, <1>12, <1>13, <1>15, <1>16, <1>17, <1>18, <1>19

LEMMA LoaderPreserves == ASSUME LoaderInv, [Loader!Next]_(Loader!vars) PROVE LoaderInv'
  <1> USE LoaderAssumption
  <1> USE DEF LoaderInv
  <1>1. CASE UNCHANGED Loader!vars
    BY <1>1 DEF Loader!vars, Loader!properties, Loader!objects, Loader!requests, Loader!TypeOK,
       LoadingState, LoadingTypes, Loader!RequestShows, StillLoading, NoneEnding, Among, Restarts, AllUnset,
       Incomplete
  <1>2. LoadingTypes /\ Loader!RequestShows /\ stack \in Seq(Loader!Frames)
    BY DEF LoadingState, LoadingTypes
  <1>3. ASSUME NEW n \in LoaderName \cup {Loader!Unset}, Loader!SetInterfaceName(n) PROVE LoaderInv'
    <2>1. interfaceName' \in LoaderName \cup {Loader!Unset} /\ serviceDescriptor' \in LoaderDescriptor \cup {Loader!Unset}
      BY <1>3 DEF Loader!SetInterfaceName, Loader!TypeOK
    <2> QED
      BY <1>3, <2>1, SetKeeps DEF Loader!SetInterfaceName
  <1>4. ASSUME NEW d \in LoaderDescriptor \cup {Loader!Unset}, Loader!SetServiceDescriptor(d) PROVE LoaderInv'
    <2>1. interfaceName' \in LoaderName \cup {Loader!Unset} /\ serviceDescriptor' \in LoaderDescriptor \cup {Loader!Unset}
      BY <1>4 DEF Loader!SetServiceDescriptor, Loader!TypeOK
    <2> QED
      BY <1>4, <2>1, SetKeeps DEF Loader!SetServiceDescriptor
  <1>5. ASSUME Loader!SetAsynchronous PROVE LoaderInv'
    <2>1. /\ UNCHANGED <<background, interfaceName, serviceDescriptor, loaderComponentComplete, status, serviceObject,
                         abandoned, leaked, serviceReply, serviceManager, orphans, lost, stack, crashed>>
          /\ asynchronous' \in BOOLEAN /\ loaderChanges' \in 0..MaxLoaderChanges
      BY <1>5 DEF Loader!SetAsynchronous, Loader!Change, Loader!objects, Loader!requests, Loader!TypeOK
    <2> QED
      BY <2>1 DEF Loader!TypeOK, LoadingState, LoadingTypes, Loader!RequestShows, StillLoading, NoneEnding, Among,
         Restarts, AllUnset, Incomplete
  <1>6. ASSUME Loader!ComponentComplete PROVE LoaderInv'
    <2>1. ~crashed /\ stack = <<>> /\ ~loaderComponentComplete
          /\ UNCHANGED <<background, interfaceName, serviceDescriptor, asynchronous, loaderChanges>>
      BY <1>6 DEF Loader!ComponentComplete
    <2>2. /\ serviceObject = "null" /\ \A ats : ~Among(stack, ats)
      BY <2>1 DEF Incomplete, Among
    <2>3. CASE AllUnset
      <3>1. loaderComponentComplete' = TRUE
            /\ UNCHANGED <<status, serviceObject, abandoned, leaked, serviceReply, serviceManager, orphans, lost, stack,
                           crashed>>
        BY <1>6, <2>3 DEF Loader!ComponentComplete, AllUnset, Loader!objects, Loader!requests
      <3> QED
        BY <2>1, <3>1 DEF Loader!TypeOK, LoadingState, LoadingTypes, Loader!RequestShows, StillLoading, NoneEnding,
           Among, Restarts, AllUnset, Incomplete
    <2>4. CASE ~AllUnset
      <3> DEFINE f == Loader!Frame("complete", TRUE, FALSE)
      <3>1. Loader!StartLoading(<<f>>) /\ loaderComponentComplete' = loaderComponentComplete
        BY <1>6, <2>4 DEF Loader!ComponentComplete, AllUnset
      <3>2. f \in Loader!Frames /\ f.at = "complete"
        BY FrameFits
      <3> HIDE DEF f
      <3>3. /\ <<f>> \in Seq(Loader!Frames) /\ Among(<<f>>, {"complete"})
            /\ ~Among(<<f>>, {"start"}) /\ NoneEnding(<<f>>)
        BY <3>2 DEF Among, NoneEnding
      <3>4. LoadingState' /\ FramesKept(<<f>>)
        BY <1>2, <2>1, <2>2, <3>1, <3>3, StartKeeps
      <3>5. Incomplete'
        BY <3>3, <3>4 DEF Incomplete, FramesKept, Among
      <3> QED
        BY <2>1, <3>1, <3>4, <3>5 DEF Loader!TypeOK, LoadingState, LoadingTypes
    <2> QED
      BY <2>3, <2>4
  <1>7. ASSUME Loader!EventLoop
        PROVE  /\ ~crashed /\ stack = <<>> /\ <<>> \in Seq(Loader!Frames) /\ NoneEnding(<<>>)
               /\ ~Among(<<>>, {"start"}) /\ \A ats : ~Among(stack, ats)
               /\ loaderComponentComplete \/ (serviceObject = "null" /\ serviceReply = "null" /\ orphans = 0
                                             /\ ~abandoned /\ ~leaked)
    BY <1>7 DEF Loader!EventLoop, Among, NoneEnding, Incomplete
  <1>8. ASSUME Loader!FinishLoading PROVE LoaderInv'
    <2>1. /\ Loader!EventLoop /\ serviceReply = "pending" /\ orphans = 0 /\ orphans' = orphans
          /\ UNCHANGED <<background, interfaceName, serviceDescriptor, asynchronous, loaderComponentComplete, loaderChanges>>
      BY <1>8 DEF Loader!FinishLoading, Loader!properties
    <2>2. PICK obj \in {"fresh", "null"} : Loader!Answer(obj, serviceManager, <<>>)
      BY <1>8 DEF Loader!FinishLoading
    <2>3. LoadingState' /\ Incomplete'
      <3>1. serviceManager \in BOOLEAN /\ orphans' \in Nat
        BY <1>2, <2>1 DEF LoadingTypes
      <3>2. LoadingState'
        BY <1>2, <1>7, <2>1, <2>2, <3>1, AnswerKeeps
      <3> QED
        BY <1>7, <2>1, <3>2 DEF Incomplete
    <2> QED
      BY <2>1, <2>3 DEF Loader!TypeOK, LoadingState, LoadingTypes
  <1>9. ASSUME Loader!FinishOrphan PROVE LoaderInv'
    <2>1. /\ Loader!EventLoop /\ orphans > 0 /\ Loader!FinishUnasked(serviceReply, serviceManager, orphans - 1, <<>>)
          /\ UNCHANGED <<background, interfaceName, serviceDescriptor, asynchronous, loaderComponentComplete, loaderChanges>>
      BY <1>9 DEF Loader!FinishOrphan, Loader!properties
    <2>2. /\ serviceManager \in BOOLEAN /\ orphans - 1 \in Nat /\ serviceReply \in {"null", "pending", "deleted"}
          /\ serviceReply = "pending" => status \in {"Loading", "Error"}
      BY <1>2, <2>1 DEF LoadingTypes, Loader!RequestShows
    <2>3. serviceReply = "pending" /\ StillLoading => serviceManager
      BY <1>7, <2>1 DEF LoadingState
    <2>4. LoadingState'
      BY <1>2, <1>7, <2>1, <2>2, <2>3, FinishKeeps
    <2>5. Incomplete'
      BY <1>2, <1>7, <2>1 DEF Incomplete, LoadingTypes
    <2> QED
      BY <2>1, <2>4, <2>5 DEF Loader!TypeOK, LoadingState, LoadingTypes
  <1>10. ASSUME Loader!IPCFault PROVE LoaderInv'
    <2> DEFINE f == Loader!Frame("fault", status # "Error", FALSE)
    <2>1. /\ Loader!EventLoop /\ status' = "Error" /\ stack' = <<f>>
          /\ serviceObject \in {"alive", "dying"} \/ abandoned \/ leaked
          /\ UNCHANGED <<background, interfaceName, serviceDescriptor, asynchronous, loaderComponentComplete, serviceObject,
                         abandoned, leaked, serviceReply, serviceManager, orphans, lost, crashed, loaderChanges>>
      BY <1>10 DEF Loader!IPCFault, Loader!properties, Loader!objects, Loader!requests
    <2>2. (status # "Error") \in BOOLEAN
      OBVIOUS
    <2>3. f \in Loader!Frames /\ f.at = "fault"
      BY <2>2, FrameFits
    <2> HIDE DEF f
    <2>4. stack' \in Seq(Loader!Frames) /\ ~Among(stack', {"start"})
      BY <2>1, <2>3 DEF Among
    <2>5. LoadingTypes' /\ Loader!RequestShows' /\ ~StillLoading'
      BY <1>2, <2>1, <2>4 DEF LoadingTypes, Loader!RequestShows, StillLoading
    <2>6. LoadingState'
      BY <2>4, <2>5 DEF LoadingState, Among
    <2>7. Incomplete'
      BY <1>7, <2>1 DEF Incomplete
    <2> QED
      BY <2>1, <2>4, <2>6, <2>7 DEF Loader!TypeOK
  <1>11. ASSUME Loader!DeferredDelete PROVE LoaderInv'
    <2>1. /\ Loader!EventLoop /\ (serviceObject = "dying" \/ abandoned) /\ abandoned' = FALSE
          /\ serviceObject' \in {serviceObject, "deleted"}
          /\ UNCHANGED <<background, interfaceName, serviceDescriptor, asynchronous, loaderComponentComplete, status,
                         leaked, serviceReply, serviceManager, orphans, lost, stack, crashed, loaderChanges>>
      BY <1>11 DEF Loader!DeferredDelete, Loader!properties, Loader!requests
    <2>2. loaderComponentComplete
      BY <1>7, <2>1
    <2>3. LoadingTypes' /\ Loader!RequestShows'
      BY <1>2, <2>1 DEF LoadingTypes, Loader!RequestShows
    <2>4. StillLoading' = StillLoading /\ AllUnset' = AllUnset
      BY <2>1 DEF StillLoading, AllUnset
    <2>5. LoadingState'
      BY <2>1, <2>3, <2>4 DEF LoadingState, NoneEnding, Among, Restarts
    <2>6. Incomplete'
      BY <2>1, <2>2 DEF Incomplete
    <2>7. Loader!TypeOK'
      BY <2>1, <2>3 DEF Loader!TypeOK, LoadingTypes
    <2> QED
      BY <2>5, <2>6, <2>7
  <1> QED
    BY <1>1, <1>3, <1>4, <1>5, <1>6, <1>8, <1>9, <1>10, <1>11, ReturnKeeps DEF Loader!Next
-----------------------------------------------------------------------------
(***************************************************************************)
(* The QML elements that list services.                                    *)
(***************************************************************************)
Monitored ==
  /\ element = "ServiceFilter" /\ monitor => connections > 0
  /\ owed => listsComponentComplete /\ monitor
ListsInv == Lists!TypeOK /\ connections <= listsChanges /\ Monitored /\ Lists!RegistrationsReachList

LEMMA ListsInitInv == Lists!Init => ListsInv
  <1> SUFFICES ASSUME Lists!Init PROVE ListsInv
    OBVIOUS
  <1> USE ListsAssumption DEF Lists!Init
  <1>1. /\ connections \in 0..MaxListsChanges /\ listsChanges \in 0..MaxListsChanges /\ connections <= listsChanges
    OBVIOUS
  <1>2. Lists!TypeOK
    BY <1>1 DEF Lists!TypeOK
  <1>3. Monitored /\ Lists!RegistrationsReachList
    BY DEF Monitored, Lists!RegistrationsReachList
  <1> QED
    BY <1>1, <1>2, <1>3 DEF ListsInv

LEMMA ListsPreserves == ASSUME ListsInv, [Lists!Next]_(Lists!vars) PROVE ListsInv'
  <1> USE ListsAssumption DEF ListsInv
  <1> DEFINE Counts == /\ connections \in 0..MaxListsChanges /\ listsChanges \in 0..MaxListsChanges
                       /\ connections <= listsChanges
  <1>1. CASE UNCHANGED Lists!vars
    BY <1>1 DEF Lists!vars, Lists!TypeOK, Monitored, Lists!RegistrationsReachList
  <1>2. Counts
    BY DEF Lists!TypeOK
  <1>3. ASSUME Lists!Change PROVE listsChanges' \in 0..MaxListsChanges /\ listsChanges' = listsChanges + 1
    BY <1>2, <1>3 DEF Lists!Change
  <1>4. ASSUME NEW c \in Criteria, Lists!Update(c, monitor, manager, connections)
        PROVE /\ list' \subseteq ListDescriptor /\ manager' \in BOOLEAN /\ connections' \in {0, connections}
              /\ element = "ServiceList" \/ monitor => connections' = connections
    BY <1>4 DEF Lists!Update, Lists!ManagerKept, Lists!Matching, Lists!TypeOK
  <1>5. ASSUME NEW c \in Criteria, Lists!SetCriterion(c) PROVE ListsInv'
    <2>1. /\ UNCHANGED <<element, registered, listsComponentComplete, monitor, signals, queued>>
          /\ criterion' = c /\ owed' = (owed /\ ~listsComponentComplete) /\ listsChanges' = listsChanges + 1
          /\ listsChanges' \in 0..MaxListsChanges
      BY <1>3, <1>5 DEF Lists!SetCriterion
    <2>2. /\ list' \subseteq ListDescriptor /\ manager' \in BOOLEAN /\ connections' \in {0, connections}
          /\ element = "ServiceList" \/ monitor => connections' = connections
      BY <1>4, <1>5 DEF Lists!SetCriterion
    <2>3. owed' = FALSE
      BY <2>1 DEF Monitored
    <2>4. Counts'
      BY <1>2, <2>1, <2>2
    <2>5. Lists!TypeOK'
      BY <2>1, <2>2, <2>3, <2>4 DEF Lists!TypeOK
    <2>6. Monitored' /\ Lists!RegistrationsReachList'
      BY <2>1, <2>2, <2>3 DEF Monitored, Lists!RegistrationsReachList
    <2> QED
      BY <2>4, <2>5, <2>6
  <1>6. ASSUME NEW b \in BOOLEAN, Lists!SetMonitor(b) PROVE ListsInv'
    <2>1. /\ UNCHANGED <<element, registered, listsComponentComplete, signals, queued, criterion, list>>
          /\ monitor' = b /\ owed' = (owed /\ b) /\ listsChanges' = listsChanges + 1
          /\ listsChanges' \in 0..MaxListsChanges
          /\ manager' = (element # "ServiceFilter" \/ b)
          /\ element = "ServiceFilter" => b # monitor
          /\ connections' = IF b THEN connections + 1
                            ELSE IF element = "ServiceFilter" THEN 0 ELSE connections
      BY <1>3, <1>6, FALSE = FALSE DEF Lists!SetMonitor
    <2>2. Counts' /\ (b => connections' > 0)
      BY <1>2, <2>1
    <2>3. Lists!TypeOK'
      BY <2>1, <2>2 DEF Lists!TypeOK
    <2>4. Monitored'
      BY <2>1, <2>2 DEF Monitored
    <2>5. Lists!RegistrationsReachList'
      BY <2>1, <2>2 DEF Lists!RegistrationsReachList
    <2> QED
      BY <2>2, <2>3, <2>4, <2>5
  <1>7. ASSUME Lists!ComponentComplete PROVE ListsInv'
    <2>1. /\ UNCHANGED <<element, registered, criterion, monitor, signals, queued, listsChanges>>
          /\ listsComponentComplete' = TRUE /\ list' = Lists!Matching(criterion) /\ owed' = FALSE
          /\ manager' = Lists!ManagerKept(monitor)
          /\ connections' = IF Lists!ManagerKept(monitor) THEN connections ELSE 0
      BY <1>7 DEF Lists!ComponentComplete
    <2>2. Counts'
      BY <1>2, <2>1
    <2>3. Lists!TypeOK'
      BY <2>1, <2>2 DEF Lists!TypeOK, Lists!Matching, Lists!ManagerKept
    <2>4. Monitored' /\ Lists!RegistrationsReachList'
      BY <2>1 DEF Monitored, Lists!RegistrationsReachList, Lists!ManagerKept
    <2> QED
      BY <2>2, <2>3, <2>4
  <1>8. ASSUME NEW d \in ListDescriptor, Lists!Registration(d) PROVE ListsInv'
    <2>1. /\ UNCHANGED <<element, criterion, listsComponentComplete, monitor, manager, connections,
                         queued, list>>
          /\ registered' = (IF d \in registered THEN registered \ {d} ELSE registered \cup {d})
          /\ signals' = (signals \/ connections > 0)
          /\ owed' = (owed \/ (monitor /\ listsComponentComplete
                               /\ (element = "ServiceFilter" \/ connections > 0)))
          /\ listsChanges' = listsChanges + 1 /\ listsChanges' \in 0..MaxListsChanges
      BY <1>3, <1>8 DEF Lists!Registration
    <2>2. Counts'
      BY <1>2, <2>1
    <2>3. Lists!TypeOK'
      BY <2>1, <2>2 DEF Lists!TypeOK
    <2>4. Monitored' /\ Lists!RegistrationsReachList'
      BY <2>1 DEF Monitored, Lists!RegistrationsReachList
    <2> QED
      BY <2>2, <2>3, <2>4
  <1>9. ASSUME Lists!ServicesAddedRemoved PROVE ListsInv'
    BY <1>9 DEF Lists!ServicesAddedRemoved, Lists!TypeOK, Monitored, Lists!RegistrationsReachList
  <1>10. ASSUME Lists!UpdateServiceList PROVE ListsInv'
    <2>1. /\ UNCHANGED <<element, registered, criterion, listsComponentComplete, monitor, signals, listsChanges>>
          /\ queued' = FALSE /\ owed' = (owed /\ ~listsComponentComplete)
          /\ list' \subseteq ListDescriptor /\ manager' \in BOOLEAN /\ connections' \in {0, connections}
          /\ element = "ServiceList" \/ monitor => connections' = connections
      BY <1>4, <1>10 DEF Lists!UpdateServiceList, Lists!TypeOK
    <2>2. Counts'
      BY <1>2, <2>1
    <2>3. owed' = FALSE
      BY <2>1 DEF Monitored
    <2>4. Lists!TypeOK'
      BY <2>1, <2>2, <2>3 DEF Lists!TypeOK
    <2>5. Monitored' /\ Lists!RegistrationsReachList'
      BY <2>1, <2>3 DEF Monitored, Lists!RegistrationsReachList
    <2> QED
      BY <2>2, <2>4, <2>5
  <1> QED
    BY <1>1, <1>5, <1>6, <1>7, <1>8, <1>9, <1>10 DEF Lists!Next
-----------------------------------------------------------------------------
(***************************************************************************)
(* An object on the bus: the type of a value is known again from what is sent *)
(* of it, so a call finds the method it is for.                            *)
(***************************************************************************)
CallFits ==
  call.state = "asked" => /\ call.method \in Bus!Calls /\ call.args \in Bus!Arguments(call.method)
                          /\ call.wire = Bus!ToDBus(call.method, call.args)
BusSignalOf(m, args) ==
  [sent |-> [method |-> m, args |-> args], name |-> m.name, params |-> Bus!WireParams(m),
   wire |-> Bus!ToDBus(m, args)]
Carried == UNION {{BusSignalOf(m, args) : args \in Bus!Arguments(m)} : m \in Bus!Signals}
BusInv ==
  Bus!TypeOK /\ CallFits /\ busSignals \in Seq(Carried) /\ Bus!CallsReach /\ Bus!SignalsReach

Types == Plain \cup Custom \cup {"QVariant"}

\* What is put on the bus is known for what it is, but for a list in a QVariant.
LEMMA Recovery ==
  ASSUME NEW t \in Types, NEW value \in Bus!Value(t)
  PROVE  /\ Bus!Recovered(Bus!ToDBusVariant(t, value)) \in {t, ""}
         /\ value.type # "list" => Bus!Recovered(Bus!ToDBusVariant(t, value)) = t
         /\ value.type # "list" => Bus!Unwrapped(t, Bus!ToDBusVariant(t, value)) = value
         /\ Bus!ToDBusVariant(t, value).value = value
         /\ t # ""
  BY BusAssumption DEF Types, Bus!Value, Bus!Recovered, Bus!ToDBusVariant, Bus!Wire, Bus!Unwrapped

LEMMA Passed ==
  ASSUME NEW m \in BusMethods, NEW args \in Bus!Arguments(m)
  PROVE  /\ m.params \in Seq(Types) /\ DOMAIN args = DOMAIN m.params
         /\ \A i \in DOMAIN m.params : m.params[i] \in Types /\ args[i] \in Bus!Value(m.params[i])
         /\ DOMAIN Bus!ToDBus(m, args) = DOMAIN m.params
         /\ \A i \in DOMAIN m.params : Bus!ToDBus(m, args)[i] = Bus!ToDBusVariant(m.params[i], args[i])
         /\ Len(Bus!ToDBus(m, args)) = Len(m.params) /\ Len(m.params) \in Nat
         /\ DOMAIN m.params = 1..Len(m.params)
  <1>1. m.params \in Seq(Types)
    BY BusAssumption DEF Types
  <1>2. /\ DOMAIN args = DOMAIN m.params
        /\ \A i \in DOMAIN m.params : args[i] \in Bus!Value(m.params[i])
    BY DEF Bus!Arguments
  <1>3. \A i \in DOMAIN m.params : m.params[i] \in Types
    BY <1>1
  <1>4. /\ DOMAIN Bus!ToDBus(m, args) = DOMAIN m.params
        /\ \A i \in DOMAIN m.params : Bus!ToDBus(m, args)[i] = Bus!ToDBusVariant(m.params[i], args[i])
    BY <1>2 DEF Bus!ToDBus
  <1>5. DOMAIN m.params = 1..Len(m.params) /\ Len(m.params) \in Nat
    BY <1>1
  <1>6. Len(Bus!ToDBus(m, args)) = Len(m.params)
    BY <1>2, <1>5 DEF Bus!ToDBus
  <1> QED
    BY <1>1, <1>2, <1>3, <1>4, <1>5, <1>6

LEMMA EmptyFunction ==
  ASSUME NEW f, f = [x \in DOMAIN f |-> f[x]], DOMAIN f = {} PROVE f = <<>>
  OBVIOUS

LEMMA SignatureOf ==
  ASSUME NEW m \in BusMethods, NEW args \in Bus!Arguments(m)
  PROVE  LET s == Bus!Signature(Bus!ToDBus(m, args)) IN
         \/ s = <<>>
         \/ /\ DOMAIN s = DOMAIN m.params
            /\ \A i \in DOMAIN m.params : s[i] = Bus!Recovered(Bus!ToDBusVariant(m.params[i], args[i]))
  BY Passed DEF Bus!Signature

LEMMA SignatureKept ==
  ASSUME NEW m \in BusMethods, NEW args \in Bus!Arguments(m), ~Bus!Complex(args)
  PROVE  Bus!Signature(Bus!ToDBus(m, args)) = m.params
  <1> DEFINE wire == Bus!ToDBus(m, args)
  <1>1. ASSUME NEW i \in DOMAIN m.params
        PROVE  Bus!Recovered(wire[i]) = m.params[i] /\ m.params[i] # ""
    <2>1. m.params[i] \in Types /\ args[i] \in Bus!Value(m.params[i]) /\ i \in DOMAIN args
          /\ wire[i] = Bus!ToDBusVariant(m.params[i], args[i])
      BY Passed
    <2>2. args[i].type # "list"
      BY <2>1 DEF Bus!Complex
    <2>3. m.params[i] # "" /\ Bus!Recovered(Bus!ToDBusVariant(m.params[i], args[i])) = m.params[i]
      BY <2>1, <2>2, Recovery
    <2> QED
      BY <2>1, <2>3
  <1>2. DOMAIN wire = DOMAIN m.params /\ Len(wire) = Len(m.params) /\ m.params \in Seq(Types)
        /\ DOMAIN m.params = 1..Len(m.params)
    BY Passed
  <1> HIDE DEF wire
  <1>3. ~(Len(wire) = 1 /\ Bus!Recovered(wire[1]) = "")
    <2>1. Len(wire) = 1 => 1 \in DOMAIN m.params
      BY <1>2
    <2> QED
      BY <1>1, <2>1
  <1>4. Bus!Signature(wire) = [i \in DOMAIN m.params |-> m.params[i]]
    BY <1>1, <1>2, <1>3 DEF Bus!Signature
  <1>5. m.params = [i \in DOMAIN m.params |-> m.params[i]]
    BY <1>2
  <1> QED
    BY <1>4, <1>5 DEF wire

LEMMA TargetFits ==
  ASSUME NEW m \in BusMethods, NEW args \in Bus!Arguments(m), NEW k \in BusMethods,
         k.params = Bus!Signature(Bus!ToDBus(m, args)), k.params # <<>>
  PROVE  k.params = m.params
  <1>1. /\ DOMAIN k.params = DOMAIN m.params
        /\ \A i \in DOMAIN m.params : k.params[i] = Bus!Recovered(Bus!ToDBusVariant(m.params[i], args[i]))
    BY SignatureOf
  <1>2. k.params \in Seq(Types) /\ m.params \in Seq(Types)
    BY BusAssumption DEF Types
  <1>3. ASSUME NEW i \in DOMAIN m.params PROVE k.params[i] = m.params[i]
    <2>0. m.params[i] \in Types /\ args[i] \in Bus!Value(m.params[i])
      BY Passed
    <2>1. k.params[i] \in {m.params[i], ""}
      <3>1. k.params[i] = Bus!Recovered(Bus!ToDBusVariant(m.params[i], args[i]))
        BY <1>1
      <3>2. Bus!Recovered(Bus!ToDBusVariant(m.params[i], args[i])) \in {m.params[i], ""}
        BY <2>0, Recovery
      <3> QED
        BY <3>1, <3>2
    <2>2. k.params[i] \in Types
      BY <1>1, <1>2
    <2>3. "" \notin Types
      BY BusAssumption DEF Types
    <2> QED
      BY <2>1, <2>2, <2>3
  <1> QED
    BY <1>1, <1>2, <1>3

LEMMA MetacallPreserves ==
  ASSUME BusInv, Bus!Metacall PROVE BusInv'
  <1>1. /\ call.state = "asked" /\ call.method \in Bus!Calls /\ call.args \in Bus!Arguments(call.method)
        /\ call.wire = Bus!ToDBus(call.method, call.args)
        /\ call.method \in BusMethods
        /\ UNCHANGED <<property, busSignals, heard>>
    BY DEF Bus!Metacall, BusInv, CallFits, Bus!Calls
  <1>2. Bus!SignalsReach' /\ busSignals' \in Seq(Carried)
    BY <1>1 DEF BusInv, Bus!SignalsReach
  <1>3. ASSUME NEW i \in DOMAIN call.method.params PROVE call.wire[i].value = call.args[i]
    <2>1. call.method.params[i] \in Types /\ call.args[i] \in Bus!Value(call.method.params[i])
          /\ call.wire[i] = Bus!ToDBusVariant(call.method.params[i], call.args[i])
      BY <1>1, Passed
    <2>2. Bus!ToDBusVariant(call.method.params[i], call.args[i]).value = call.args[i]
      BY <2>1, Recovery
    <2> QED
      BY <2>1, <2>2
  <1>4. [i \in DOMAIN call.wire |-> call.wire[i].value] = call.args
    <2>1. DOMAIN call.wire = DOMAIN call.method.params /\ DOMAIN call.args = DOMAIN call.method.params
      BY <1>1, Passed
    <2>2. call.args = [i \in DOMAIN call.args |-> call.args[i]]
      BY <1>1 DEF Bus!Arguments
    <2> QED
      BY <1>3, <2>1, <2>2
  <1>5. CASE Bus!Target(call.method.name, call.wire) = {}
    <2>1. Bus!Complex(call.args)
      <3>1. SUFFICES ASSUME ~Bus!Complex(call.args) PROVE FALSE
        OBVIOUS
      <3>2. call.method.params = Bus!Signature(call.wire)
        BY <1>1, <3>1, SignatureKept
      <3> QED
        BY <1>1, <1>5, <3>2 DEF Bus!Target
    <2>2. call' = [state |-> "answered", method |-> call.method, args |-> call.args,
                    result |-> Bus!Default(call.method.ret)] /\ ran' = ran
      BY <1>5 DEF Bus!Metacall
    <2>3. Bus!TypeOK'
      BY <1>1, <2>2 DEF BusInv, Bus!TypeOK
    <2>4. CallFits' /\ Bus!CallsReach'
      BY <2>1, <2>2 DEF CallFits, Bus!CallsReach
    <2> QED
      BY <1>2, <2>3, <2>4 DEF BusInv
  <1>6. CASE Bus!Target(call.method.name, call.wire) # {}
    <2>1. PICK k \in Bus!Target(call.method.name, call.wire) :
            \E gave \in IF k.ret = "void" THEN {Bus!Default("void")}
                        ELSE {value \in Bus!Value(k.ret) : value.type \notin Custom \/ k.ret \in Custom} :
              /\ ran' = [name |-> k.name, params |-> k.params, gave |-> gave,
                         args |-> IF k.params = <<>> THEN <<>>
                                  ELSE [i \in DOMAIN call.wire |-> call.wire[i].value]]
              /\ call' = [state |-> "answered", method |-> call.method, args |-> call.args,
                          result |-> Bus!Answer(k, gave)]
      BY <1>6 DEF Bus!Metacall
    <2>2. PICK gave \in IF k.ret = "void" THEN {Bus!Default("void")}
                        ELSE {value \in Bus!Value(k.ret) : value.type \notin Custom \/ k.ret \in Custom} :
              /\ ran' = [name |-> k.name, params |-> k.params, gave |-> gave,
                         args |-> IF k.params = <<>> THEN <<>>
                                  ELSE [i \in DOMAIN call.wire |-> call.wire[i].value]]
              /\ call' = [state |-> "answered", method |-> call.method, args |-> call.args,
                          result |-> Bus!Answer(k, gave)]
      BY <2>1
    <2>3. k \in Bus!Calls /\ k \in BusMethods /\ k.name = call.method.name /\ k.params = Bus!Signature(call.wire)
          /\ k.kind = "call" /\ call.method.kind = "call"
      BY <1>1 DEF Bus!Target, Bus!Calls
    <2>4. k.params # <<>> => k.params = call.method.params
      BY <1>1, <2>3, TargetFits
    <2>5. ran'.args = (IF k.params = <<>> THEN <<>> ELSE call.args) /\ ran'.name = k.name
          /\ ran'.params = k.params /\ ran'.gave = gave
      BY <1>4, <2>2
    <2>6. ran'.args \in Bus!Arguments(k)
      <3>1. CASE k.params = <<>>
        BY <2>5, <3>1 DEF Bus!Arguments
      <3>2. CASE k.params # <<>>
        BY <1>1, <2>4, <2>5, <3>2 DEF Bus!Arguments
      <3> QED
        BY <3>1, <3>2
    <2>7. gave \in Bus!Value("QVariant") \cup {Bus!Default("void")}
      <3>1. k.ret \in Plain \cup Custom \cup {"QVariant", "void"}
        BY <2>3, BusAssumption
      <3> QED
        BY <2>2, <3>1, BusAssumption DEF Bus!Value
    <2>8. ran' \in [name : {m.name : m \in BusMethods}, params : {m.params : m \in BusMethods},
                    args : UNION {Bus!Arguments(m) : m \in BusMethods},
                    gave : Bus!Value("QVariant") \cup {Bus!Default("void")}]
      BY <2>2, <2>3, <2>5, <2>6, <2>7
    <2>9. Bus!TypeOK'
      BY <1>1, <2>2, <2>8 DEF BusInv, Bus!TypeOK
    <2>10. CallFits'
      BY <2>2 DEF CallFits
    <2>11. Bus!CallsReach'
      <3>1. SUFFICES ASSUME ~Bus!Complex(call.args)
                     PROVE  /\ ran'.name = call.method.name /\ ran'.params = call.method.params
                            /\ ran'.args = call.args
                            /\ ~Bus!TakesCustom(call.method) \/ call.method.ret \in Custom
                                 => Bus!Answer(k, gave) = gave
        BY <2>2, <2>5 DEF Bus!CallsReach
      <3>2. k.params = call.method.params
        BY <1>1, <2>3, <3>1, SignatureKept
      <3>3. k = call.method
        BY <1>1, <2>3, <3>2, BusAssumption
      <3>4. k.params = <<>> => call.args = <<>>
        BY <1>1, <3>3 DEF Bus!Arguments
      <3> QED
        BY <2>5, <3>2, <3>3, <3>4 DEF Bus!Answer
    <2> QED
      BY <1>2, <2>9, <2>10, <2>11 DEF BusInv
  <1> QED
    BY <1>5, <1>6

LEMMA BusInitInv == Bus!Init => BusInv
  <1>1. Bus!Init => Bus!TypeOK
    BY DEF Bus!Init, Bus!TypeOK, Bus!NoCall
  <1>2. Bus!Init => CallFits /\ Bus!CallsReach /\ Bus!SignalsReach
    BY DEF Bus!Init, CallFits, Bus!CallsReach, Bus!SignalsReach, Bus!NoCall
  <1>3. Bus!Init => busSignals \in Seq(Carried)
    BY DEF Bus!Init
  <1> QED
    BY <1>1, <1>2, <1>3 DEF BusInv

LEMMA InvokePreserves ==
  ASSUME BusInv, NEW m \in Bus!Calls, NEW args \in Bus!Arguments(m), Bus!InvokeRemote(m, args)
  PROVE  BusInv'
  <1>1. /\ call'.state \in {"asked", "failed"} /\ call'.method = m /\ call'.args = args
        /\ call'.wire = Bus!ToDBus(m, args)
    BY DEF Bus!InvokeRemote
  <1>2. Bus!TypeOK'
    BY <1>1 DEF Bus!InvokeRemote, BusInv, Bus!TypeOK
  <1>3. CallFits' /\ Bus!CallsReach'
    BY <1>1 DEF CallFits, Bus!CallsReach
  <1>4. Bus!SignalsReach' /\ busSignals' \in Seq(Carried)
    BY DEF Bus!InvokeRemote, BusInv, Bus!SignalsReach
  <1> QED
    BY <1>2, <1>3, <1>4 DEF BusInv

\* What ends a call, and what asks for no method.
LEMMA EndPreserves ==
  ASSUME BusInv,
         Bus!Return \/ (\E p \in BusProperties, v \in 0..1 : Bus!WriteProperty(p, v))
                    \/ (\E p \in BusProperties : Bus!ResetProperty(p) \/ Bus!ReadProperty(p))
  PROVE  BusInv'
  <1>1. Bus!SignalsReach' /\ busSignals' \in Seq(Carried) /\ busSignals' = busSignals /\ heard' = heard
    BY DEF Bus!Return, Bus!WriteProperty, Bus!ResetProperty, Bus!ReadProperty, BusInv,
       Bus!SignalsReach
  <1>2. CASE Bus!Return
    <2>1. Bus!TypeOK'
      BY <1>1, <1>2 DEF Bus!Return, Bus!NoCall, BusInv, Bus!TypeOK
    <2>2. CallFits' /\ Bus!CallsReach'
      BY <1>2 DEF Bus!Return, Bus!NoCall, CallFits, Bus!CallsReach
    <2> QED
      BY <1>1, <2>1, <2>2 DEF BusInv
  <1>3. ASSUME NEW p \in BusProperties, NEW v \in 0..1, Bus!WriteProperty(p, v) PROVE BusInv'
    <2>1. Bus!TypeOK'
      BY <1>1, <1>3 DEF Bus!WriteProperty, BusInv, Bus!TypeOK
    <2>2. CallFits' /\ Bus!CallsReach'
      BY <1>3 DEF Bus!WriteProperty, BusInv, CallFits, Bus!CallsReach
    <2> QED
      BY <1>1, <2>1, <2>2 DEF BusInv
  <1>4. ASSUME NEW p \in BusProperties, Bus!ReadProperty(p) PROVE BusInv'
    <2>1. Bus!TypeOK'
      BY <1>1, <1>4 DEF Bus!ReadProperty, BusInv, Bus!TypeOK
    <2>2. CallFits' /\ Bus!CallsReach'
      BY <1>4 DEF Bus!ReadProperty, BusInv, CallFits, Bus!CallsReach
    <2> QED
      BY <1>1, <2>1, <2>2 DEF BusInv
  <1> QED
    BY <1>2, <1>3, <1>4 DEF Bus!ResetProperty

LEMMA BusEmitPreserves ==
  ASSUME BusInv, NEW m \in Bus!Signals, NEW args \in Bus!Arguments(m), Bus!EmitSignal(m, args)
  PROVE  BusInv'
  <1>1. busSignals' = Append(busSignals, BusSignalOf(m, args)) /\ UNCHANGED <<property, call, ran, heard>>
    BY DEF Bus!EmitSignal, BusSignalOf
  <1>2. BusSignalOf(m, args) \in Carried /\ BusSignalOf(m, args).sent.method = m
    BY DEF Carried, BusSignalOf
  <1>3. busSignals \in Seq(Carried)
    BY DEF BusInv
  <1>4. busSignals' \in Seq(Carried)
    BY <1>1, <1>2, <1>3
  <1>5. \A n \in DOMAIN busSignals' : busSignals'[n].sent.method \in Bus!Signals
    BY <1>4 DEF Carried, BusSignalOf
  <1>6. Bus!TypeOK'
    BY <1>1, <1>5 DEF BusInv, Bus!TypeOK
  <1>7. CallFits' /\ Bus!CallsReach' /\ Bus!SignalsReach'
    BY <1>1 DEF BusInv, CallFits, Bus!CallsReach, Bus!SignalsReach
  <1> QED
    BY <1>4, <1>6, <1>7 DEF BusInv

LEMMA DeliverPreserves ==
  ASSUME BusInv, Bus!DeliverSignal
  PROVE  BusInv'
  <1>1. busSignals \in Seq(Carried) /\ busSignals # <<>> /\ busSignals' = Tail(busSignals)
        /\ UNCHANGED <<property, call, ran>>
    BY DEF BusInv, Bus!DeliverSignal
  <1>2. busSignals' \in Seq(Carried) /\ Head(busSignals) \in Carried
    BY <1>1
  <1>0. PICK m \in Bus!Signals : Head(busSignals) \in {BusSignalOf(m, args) : args \in Bus!Arguments(m)}
    BY <1>2 DEF Carried
  <1>3. PICK args \in Bus!Arguments(m) : Head(busSignals) = BusSignalOf(m, args)
    BY <1>0
  <1> DEFINE to == Bus!Connected(m.name, Bus!WireParams(m))
  <1>4. /\ heard'.sent = [method |-> m, args |-> args]
        /\ heard'.got = {Bus!Activated(k, Bus!ToDBus(m, args)) : k \in to}
        /\ heard'.times = IF Bus!Relayed(m) THEN 1 ELSE Cardinality(to)
    <2>1. Bus!Cardinality(to) = Cardinality(to)
      BY DEF Bus!Cardinality, Cardinality
    <2>2. heard' = [sent |-> [method |-> m, args |-> args],
                    got |-> {Bus!Activated(k, Bus!ToDBus(m, args)) : k \in to},
                    times |-> IF Bus!Relayed(m) THEN 1 ELSE Bus!Cardinality(to)]
      <3>1. /\ Head(busSignals).sent = [method |-> m, args |-> args]
            /\ Head(busSignals).name = m.name /\ Head(busSignals).params = Bus!WireParams(m)
            /\ Head(busSignals).wire = Bus!ToDBus(m, args)
        BY <1>3 DEF BusSignalOf
      <3>2. Bus!Connected(Head(busSignals).name, Head(busSignals).params) = to
            /\ Head(busSignals).sent.method = m
        BY <3>1
      <3>3. heard' = [sent |-> Head(busSignals).sent,
                      got |-> {Bus!Activated(k, Head(busSignals).wire) :
                                 k \in Bus!Connected(Head(busSignals).name, Head(busSignals).params)},
                      times |-> IF Bus!Relayed(Head(busSignals).sent.method) THEN 1
                                ELSE Bus!Cardinality(Bus!Connected(Head(busSignals).name,
                                                                   Head(busSignals).params))]
        BY DEF Bus!DeliverSignal
      <3> HIDE DEF to
      <3> QED
        BY <3>1, <3>2, <3>3
    <2> QED
      BY <2>1, <2>2
  <1>5. \A n \in DOMAIN busSignals' : busSignals'[n].sent.method \in Bus!Signals
    BY <1>2 DEF Carried, BusSignalOf
  <1>6. Bus!TypeOK'
    BY <1>1, <1>4, <1>5 DEF BusInv, Bus!TypeOK
  <1>7. CallFits' /\ Bus!CallsReach'
    BY <1>1 DEF BusInv, CallFits, Bus!CallsReach
  <1>8. Bus!SignalsReach'
    <2>1. SUFFICES ASSUME ~Bus!Complex(args), to = {m}
                   PROVE  heard'.times = 1 /\ heard'.got = {heard'.sent}
      BY <1>4 DEF Bus!SignalsReach
    <2>2. m \in BusMethods
      BY DEF Bus!Signals
    <2>3. ASSUME NEW i \in DOMAIN m.params
          PROVE  Bus!Unwrapped(m.params[i], Bus!ToDBus(m, args)[i]) = args[i]
      <3>1. m.params[i] \in Types /\ args[i] \in Bus!Value(m.params[i]) /\ i \in DOMAIN args
            /\ Bus!ToDBus(m, args)[i] = Bus!ToDBusVariant(m.params[i], args[i])
        BY <2>2, Passed
      <3>2. args[i].type # "list"
        BY <2>1, <3>1 DEF Bus!Complex
      <3>3. Bus!Unwrapped(m.params[i], Bus!ToDBusVariant(m.params[i], args[i])) = args[i]
        BY <3>1, <3>2, Recovery
      <3> QED
        BY <3>1, <3>3
    <2>4. args = [i \in DOMAIN args |-> args[i]]
      BY DEF Bus!Arguments
    <2>5. Bus!Activated(m, Bus!ToDBus(m, args)) = [method |-> m, args |-> args]
      <3>1. DOMAIN args = DOMAIN m.params /\ DOMAIN Bus!ToDBus(m, args) = DOMAIN m.params
        BY <2>2, Passed
      <3>2. [i \in DOMAIN Bus!ToDBus(m, args) |-> Bus!Unwrapped(m.params[i], Bus!ToDBus(m, args)[i])] = args
        BY <2>3, <2>4, <3>1
      <3> QED
        BY <3>2 DEF Bus!Activated
    <2>6. Cardinality({m}) = 1
      BY FS_Singleton
    <2> QED
      BY <1>4, <2>1, <2>5, <2>6
  <1> QED
    BY <1>2, <1>6, <1>7, <1>8 DEF BusInv

LEMMA BusPreserves ==
  ASSUME BusInv, [Bus!Next]_(Bus!vars) PROVE BusInv'
  <1>1. CASE UNCHANGED Bus!vars
    BY <1>1 DEF Bus!vars, BusInv, Bus!TypeOK, CallFits, Bus!CallsReach, Bus!SignalsReach
  <1> QED
    BY <1>1, MetacallPreserves, InvokePreserves, EndPreserves, BusEmitPreserves,
       DeliverPreserves DEF Bus!Next
-----------------------------------------------------------------------------
(***************************************************************************)
(* The proxies over a socket: the tables that number the methods of the    *)
(* service and of the proxy agree, and a proxy is asked for and answered once. *)
(***************************************************************************)
Method == [name : STRING, kind : {"void", "value", "signal"}, arity : Nat, known : BOOLEAN]
Inherited == Len(QObjectMethods)
FaultMethod(name) == [name |-> name, kind |-> "signal", arity |-> 0, known |-> TRUE]

\* What is put behind a sequence comes after it.
LEMMA Joined ==
  ASSUME NEW S, NEW s \in Seq(S), NEW t \in Seq(S)
  PROVE  /\ s \o t \in Seq(S) /\ Len(s \o t) = Len(s) + Len(t)
         /\ \A i \in 1..Len(t) : (s \o t)[Len(s) + i] = t[i]
  <1>1. \A i \in 1..(Len(s) + Len(t)) :
           (s \o t)[i] = IF i <= Len(s) THEN s[i] ELSE t[i - Len(s)]
    BY ConcatProperties
  <1>2. Len(s) \in Nat /\ Len(t) \in Nat
    OBVIOUS
  <1>3. ASSUME NEW i \in 1..Len(t) PROVE (s \o t)[Len(s) + i] = t[i]
    <2> DEFINE k == Len(s) + i
    <2>1. k \in 1..(Len(s) + Len(t)) /\ ~(k <= Len(s)) /\ k - Len(s) = i
      BY <1>2
    <2> HIDE DEF k
    <2>2. (s \o t)[k] = t[k - Len(s)]
      BY <1>1, <2>1
    <2>3. (s \o t)[k] = t[i]
      BY <2>1, <2>2
    <2> QED
      BY <2>3 DEF k
  <1> QED
    BY <1>3, ConcatProperties

LEMMA PlainFits ==
  ASSUME NEW name \in STRING
  PROVE  Proxies!VoidMethod(name) \in Method /\ FaultMethod(name) \in Method /\ FaultMethod(name).name = name
  <1>1. Proxies!VoidMethod(name) = [name |-> name, kind |-> "void", arity |-> 0, known |-> TRUE]
    BY DEF Proxies!VoidMethod
  <1>3. 0 \in Nat
    OBVIOUS
  <1>5. TRUE \in BOOLEAN
    OBVIOUS
  <1>6. [name |-> name, kind |-> "void", arity |-> 0, known |-> TRUE] \in Method
    BY <1>3, <1>5 DEF Method
  <1>7. [name |-> name, kind |-> "signal", arity |-> 0, known |-> TRUE] \in Method
    BY <1>3, <1>5 DEF Method
  <1> QED
    BY <1>1, <1>6, <1>7 DEF FaultMethod

LEMMA Layout ==
  /\ Inherited \in Nat /\ Inherited >= 1 /\ Proxies!Base = Inherited + 1 /\ Len(OwnMethods) \in Nat
  /\ DOMAIN OwnMethods = 1..Len(OwnMethods)
  /\ DOMAIN Proxies!Remote = 1..(Inherited + Len(OwnMethods))
  /\ DOMAIN Proxies!Local = 1..(Inherited + 1 + Len(OwnMethods))
  /\ Proxies!Remote \in Seq(Method) /\ Proxies!Local \in Seq(Method)
  /\ \A i \in DOMAIN OwnMethods : Proxies!Remote[Inherited + i] = OwnMethods[i] /\ Proxies!Local[Proxies!Base + i] = OwnMethods[i]
  /\ Proxies!Local[Proxies!Base].name = Fault
  <1>1. /\ Inherited \in Nat /\ Inherited >= 1 /\ Proxies!Base = Inherited + 1 /\ Len(OwnMethods) \in Nat
        /\ DOMAIN OwnMethods = 1..Len(OwnMethods) /\ DOMAIN QObjectMethods = 1..Inherited
    <2>1. QObjectMethods \in Seq(STRING) /\ QObjectMethods # <<>>
      BY ProxiesAssumption
    <2>2. OwnMethods \in Seq(Method)
      BY ProxiesAssumption DEF Method
    <2> QED
      BY <2>1, <2>2 DEF Inherited, Proxies!Base
  <1>2. Proxies!QObjects \in Seq(Method) /\ Len(Proxies!QObjects) = Inherited
    <2>1. ASSUME NEW i \in 1..Inherited PROVE Proxies!VoidMethod(QObjectMethods[i]) \in Method
      <3>1. QObjectMethods[i] \in STRING
        BY ProxiesAssumption, <1>1
      <3> QED
        BY <3>1, PlainFits
    <2>2. Proxies!QObjects \in [1..Inherited -> Method]
      BY <1>1, <2>1 DEF Proxies!QObjects
    <2> QED
      BY <1>1, <2>2
  <1>3. OwnMethods \in Seq(Method)
    BY ProxiesAssumption DEF Method
  <1> DEFINE fault == FaultMethod(Fault)
  <1> DEFINE left == Proxies!QObjects \o <<fault>>
  <1>4. fault \in Method /\ fault.name = Fault
    <2>1. Fault \in STRING
      BY ProxiesAssumption
    <2> QED
      BY <2>1, PlainFits
  <1>5. Proxies!Local = left \o OwnMethods
    BY DEF Proxies!Local, FaultMethod
  <1> HIDE DEF fault
  <1>6. <<fault>> \in Seq(Method) /\ Len(<<fault>>) = 1 /\ <<fault>>[1] = fault
    BY <1>4
  <1>7. /\ left \in Seq(Method) /\ Len(left) = Inherited + 1 /\ left[Inherited + 1] = fault
    BY <1>2, <1>6, Joined
  <1> HIDE DEF left
  <1>8. /\ Proxies!Remote \in Seq(Method) /\ Len(Proxies!Remote) = Inherited + Len(OwnMethods)
        /\ \A i \in 1..Len(OwnMethods) : Proxies!Remote[Inherited + i] = OwnMethods[i]
    BY <1>2, <1>3, Joined DEF Proxies!Remote
  <1>9. /\ Proxies!Local \in Seq(Method) /\ Len(Proxies!Local) = Inherited + 1 + Len(OwnMethods)
        /\ \A i \in 1..Len(OwnMethods) : Proxies!Local[Inherited + 1 + i] = OwnMethods[i]
    <2>1. /\ left \o OwnMethods \in Seq(Method) /\ Len(left \o OwnMethods) = Len(left) + Len(OwnMethods)
          /\ \A i \in 1..Len(OwnMethods) : (left \o OwnMethods)[Len(left) + i] = OwnMethods[i]
      <3>1. left \in Seq(Method) /\ OwnMethods \in Seq(Method)
        BY <1>3, <1>7
      <3> QED
        BY <3>1, Joined
    <2>2. Proxies!Local = left \o OwnMethods /\ Len(left) = Inherited + 1
      BY <1>5, <1>7
    <2> QED
      BY <2>1, <2>2
  <1>10. DOMAIN Proxies!Remote = 1..(Inherited + Len(OwnMethods)) /\ DOMAIN Proxies!Local = 1..(Inherited + 1 + Len(OwnMethods))
    BY <1>8, <1>9
  <1>11. \A i \in DOMAIN OwnMethods : Proxies!Remote[Inherited + i] = OwnMethods[i] /\ Proxies!Local[Proxies!Base + i] = OwnMethods[i]
    BY <1>1, <1>8, <1>9
  <1>12. Proxies!Local[Proxies!Base] = fault
    <2>1. \A i \in 1..(Len(left) + Len(OwnMethods)) :
             (left \o OwnMethods)[i] = IF i <= Len(left) THEN left[i] ELSE OwnMethods[i - Len(left)]
      BY <1>3, <1>7, ConcatProperties
    <2>2. Proxies!Base \in 1..(Len(left) + Len(OwnMethods)) /\ Proxies!Base <= Len(left)
      BY <1>1, <1>7
    <2> QED
      BY <1>1, <1>5, <1>7, <2>1, <2>2
  <1> QED
    BY <1>1, <1>4, <1>8, <1>9, <1>10, <1>11, <1>12

LEMMA IndexIs ==
  ASSUME NEW methods, NEW name, DOMAIN methods \subseteq Nat, NEW i \in DOMAIN methods,
         methods[i].name = name,
         \A j \in DOMAIN methods : methods[j].name = name => j <= i
  PROVE  Proxies!IndexOf(methods, name) = i
  <1> DEFINE found == {j \in DOMAIN methods : methods[j].name = name}
  <1>1. i \in found /\ \A j \in found : j <= i /\ j \in Nat
    OBVIOUS
  <1>2. (CHOOSE k \in found : \A j \in found : j <= k) = i
    <2>1. \A k \in found : (\A j \in found : j <= k) => k = i
      BY <1>1
    <2> QED
      BY <1>1, <2>1
  <1> QED
    BY <1>1, <1>2 DEF Proxies!IndexOf

\* A method of the service has the same place in both tables, but for the signal of
\* the base class before it.
LEMMA OwnIndex ==
  ASSUME NEW i \in DOMAIN OwnMethods
  PROVE  Proxies!IndexOf(Proxies!Remote, OwnMethods[i].name) = Inherited + i
  <1>1. Inherited + i \in DOMAIN Proxies!Remote /\ DOMAIN Proxies!Remote \subseteq Nat
        /\ Proxies!Remote[Inherited + i].name = OwnMethods[i].name
    BY Layout
  <1>2. ASSUME NEW j \in DOMAIN Proxies!Remote, Proxies!Remote[j].name = OwnMethods[i].name PROVE j <= Inherited + i
    <2>1. CASE j <= Inherited
      BY <2>1, Layout
    <2>2. CASE j > Inherited
      <3>1. PICK k \in DOMAIN OwnMethods : j = Inherited + k
        <4>1. j - Inherited \in DOMAIN OwnMethods /\ j = Inherited + (j - Inherited)
          BY <2>2, Layout
        <4> QED
          BY <4>1
      <3>2. OwnMethods[k].name = OwnMethods[i].name
        BY <1>2, <3>1, Layout
      <3>3. k = i
        BY <3>2, ProxiesAssumption
      <3> QED
        BY <3>1, <3>3, Layout
    <2> QED
      BY <2>1, <2>2, Layout
  <1> QED
    BY <1>1, <1>2, IndexIs

LEMMA CallsFit ==
  ASSUME NEW i \in DOMAIN Proxies!Local, i > Proxies!Base
  PROVE  /\ Proxies!LocalToRemote[i] \in DOMAIN Proxies!Remote
         /\ Proxies!Remote[Proxies!LocalToRemote[i]] = Proxies!Local[i]
  <1>1. PICK k \in DOMAIN OwnMethods : i = Proxies!Base + k
    <2>1. i - Proxies!Base \in DOMAIN OwnMethods /\ i = Proxies!Base + (i - Proxies!Base)
      BY Layout
    <2> QED
      BY <2>1
  <1>2. Proxies!Local[i] = OwnMethods[k]
    BY <1>1, Layout
  <1>3. Proxies!LocalToRemote[i] = Inherited + k
    BY <1>2, OwnIndex DEF Proxies!LocalToRemote
  <1> QED
    BY <1>2, <1>3, Layout

LEMMA SignalsFit ==
  ASSUME NEW r \in Proxies!OwnIndexes
  PROVE  Proxies!RemoteToLocal[r] # 0 /\ Proxies!Local[Proxies!RemoteToLocal[r]].name = Proxies!Remote[r].name
  <1>1. r \in DOMAIN Proxies!Remote /\ r > Inherited
    BY DEF Proxies!OwnIndexes, Inherited
  <1>2. PICK k \in DOMAIN OwnMethods : r = Inherited + k
    <2>1. r - Inherited \in DOMAIN OwnMethods /\ r = Inherited + (r - Inherited)
      BY <1>1, Layout
    <2> QED
      BY <2>1
  <1>3. Proxies!Remote[r] = OwnMethods[k] /\ r > 1 /\ r \in Nat
    BY <1>1, <1>2, Layout
  <1> DEFINE back == {i \in DOMAIN Proxies!Local : Proxies!LocalToRemote[i] = r /\ r > 1}
  <1>4. Proxies!Base + k \in back
    <2>1. Proxies!Base + k \in DOMAIN Proxies!Local /\ Proxies!Local[Proxies!Base + k] = OwnMethods[k]
      BY Layout
    <2> QED
      BY <1>2, <1>3, <2>1, OwnIndex DEF Proxies!LocalToRemote
  <1>5. ASSUME NEW i \in back PROVE i <= Proxies!Base + k /\ i \in Nat
    <2>1. CASE i <= Proxies!Base
      BY <2>1, Layout
    <2>2. CASE i > Proxies!Base
      <3>1. PICK l \in DOMAIN OwnMethods : i = Proxies!Base + l
        <4>1. i - Proxies!Base \in DOMAIN OwnMethods /\ i = Proxies!Base + (i - Proxies!Base)
          BY <2>2, Layout
        <4> QED
          BY <4>1
      <3>2. Proxies!LocalToRemote[i] = Inherited + l
        BY <3>1, Layout, OwnIndex DEF Proxies!LocalToRemote
      <3>3. l = k
        BY <1>2, <3>2, Layout
      <3> QED
        BY <3>1, <3>3, Layout
    <2> QED
      BY <2>1, <2>2, Layout
  <1>6. Proxies!Base + k \in Nat /\ Proxies!Base + k # 0
    BY Layout
  <1>7. (CHOOSE i \in back : \A j \in back : j <= i) = Proxies!Base + k
    <2> HIDE DEF back
    <2>1. \A i \in back : (\A j \in back : j <= i) => i = Proxies!Base + k
      BY <1>4, <1>5, <1>6
    <2>2. \A j \in back : j <= Proxies!Base + k
      BY <1>5
    <2> QED
      BY <1>4, <2>1, <2>2
  <1>8. Proxies!RemoteToLocal[r] = Proxies!Base + k
    BY <1>1, <1>4, <1>7 DEF Proxies!RemoteToLocal
  <1> QED
    BY <1>3, <1>6, <1>8, Layout

LEMMA FaultIndex ==
  ASSUME ~Proxies!Shadowed PROVE Proxies!IndexOf(Proxies!Local, Fault) = Proxies!Base
  <1>1. Proxies!Base \in DOMAIN Proxies!Local /\ Proxies!Local[Proxies!Base].name = Fault /\ DOMAIN Proxies!Local \subseteq Nat
    BY Layout
  <1>2. ASSUME NEW j \in DOMAIN Proxies!Local, Proxies!Local[j].name = Fault PROVE j <= Proxies!Base
    <2>1. SUFFICES ASSUME j > Proxies!Base PROVE FALSE
      BY Layout
    <2>2. j - Proxies!Base \in DOMAIN OwnMethods /\ j = Proxies!Base + (j - Proxies!Base)
      BY <2>1, Layout
    <2>3. OwnMethods[j - Proxies!Base].name = Fault
      BY <1>2, <2>2, Layout
    <2> QED
      BY <2>2, <2>3 DEF Proxies!Shadowed
  <1> QED
    BY <1>1, <1>2, IndexIs

CallOf(i) == [kind |-> "call", index |-> Proxies!LocalToRemote[i], name |-> Proxies!Local[i].name]
Called == {i \in DOMAIN Proxies!Local : i > Proxies!Base /\ Proxies!Local[i].arity <= 10}
Sendable == {[kind |-> "create"]} \cup {CallOf(i) : i \in Called}
ProxiesSignalOf(i) == [kind |-> "signal", index |-> i, name |-> Proxies!Remote[i].name]
Answers == {[kind |-> "created"], [kind |-> "refused"]}
Answerable ==
  Answers \cup {ProxiesSignalOf(i) : i \in Proxies!SignalIndexes} \cup {[kind |-> "answer", name |-> n] : n \in Proxies!Names}

Sent ==
  toService \in [SocketClient -> Seq(Sendable)] /\ toClient \in [SocketClient -> Seq(Answerable)]

\* An object whose signals an end point intercepts is still there.
Attached ==
  \A c \in SocketClient : intercept[c] = "connected" => serving[c] \in SocketObj /\ object[serving[c]] # "dead"

\* A proxy is asked for once, before anything else, and answered once.
Fresh ==
  \A c \in SocketClient : socketProxy[c] = "none" =>
    toService[c] = <<>> /\ toClient[c] = <<>> /\ intercept[c] # "connected"
Asked ==
  \A c \in SocketClient : \A n \in DOMAIN toService[c] : toService[c][n].kind = "create" =>
    /\ toService[c] = <<[kind |-> "create"]>> /\ toClient[c] = <<>>
    /\ socketProxy[c] = "asked" /\ intercept[c] # "connected"
AskedAlive ==
  \A c \in SocketClient : \A n \in DOMAIN toService[c] : toService[c][n].kind = "create" => running
AnsweredFirst ==
  \A c \in SocketClient : \A n \in DOMAIN toClient[c] :
    toClient[c][n].kind \in {"created", "refused"} => n = 1 /\ socketProxy[c] = "asked"
ListensLater == \A c \in SocketClient : listening[c] => socketProxy[c] \in {"ready", "deleted"}

ProxiesInv ==
  /\ Proxies!TypeOK /\ Sent /\ Attached /\ Fresh /\ Asked /\ AskedAlive
  /\ AnsweredFirst /\ ListensLater
  /\ Proxies!IndexesAgree /\ Proxies!DisconnectsLiving /\ Proxies!FaultsTold

\* What is sent is of a kind, and fits.
LEMMA SendableFits ==
  ASSUME NEW m \in Sendable
  PROVE  /\ m.kind \in {"create", "call"}
         /\ m.kind = "create" => m = [kind |-> "create"]
         /\ m.kind = "call" => /\ m.index \in DOMAIN Proxies!Remote /\ Proxies!Remote[m.index].name = m.name
                               /\ Proxies!Remote[m.index].arity <= 10
  <1>1. CASE m = [kind |-> "create"]
    BY <1>1
  <1>2. ASSUME NEW i \in Called, m = CallOf(i)
        PROVE  /\ m.kind = "call" /\ m.index \in DOMAIN Proxies!Remote /\ Proxies!Remote[m.index].name = m.name
               /\ Proxies!Remote[m.index].arity <= 10
    <2>1. i \in DOMAIN Proxies!Local /\ i > Proxies!Base /\ Proxies!Local[i].arity <= 10
      BY DEF Called
    <2>2. Proxies!LocalToRemote[i] \in DOMAIN Proxies!Remote /\ Proxies!Remote[Proxies!LocalToRemote[i]] = Proxies!Local[i]
      BY <2>1, CallsFit
    <2> QED
      BY <1>2, <2>1, <2>2 DEF CallOf
  <1> QED
    BY <1>1, <1>2 DEF Sendable

LEMMA AnswerableFits ==
  ASSUME NEW m \in Answerable
  PROVE  /\ m.kind \in {"created", "refused", "signal", "answer"}
         /\ m.kind = "signal" => Proxies!Activates(m)
  <1>1. CASE m \in Answers
    BY <1>1 DEF Answers
  <1>2. ASSUME NEW i \in Proxies!SignalIndexes, m = ProxiesSignalOf(i) PROVE m.kind = "signal" /\ Proxies!Activates(m)
    <2>1. m.index = i /\ m.name = Proxies!Remote[i].name /\ m.kind = "signal" /\ i \in Proxies!OwnIndexes
      BY <1>2 DEF ProxiesSignalOf, Proxies!SignalIndexes
    <2> QED
      BY <2>1, SignalsFit DEF Proxies!Activates
  <1>3. CASE m \in {[kind |-> "answer", name |-> n] : n \in Proxies!Names}
    BY <1>3
  <1> QED
    BY <1>1, <1>2, <1>3 DEF Answerable

LEMMA Kinds ==
  ASSUME NEW f \in [SocketClient -> Seq(Sendable)], NEW g \in [SocketClient -> Seq(Answerable)]
  PROVE  /\ \A c \in SocketClient : \A n \in DOMAIN f[c] : f[c][n].kind \in {"create", "call"}
         /\ \A c \in SocketClient : \A n \in DOMAIN g[c] :
              g[c][n].kind \in {"created", "refused", "signal", "answer"}
  <1>1. \A c \in SocketClient : \A n \in DOMAIN f[c] : f[c][n] \in Sendable
    OBVIOUS
  <1>2. \A c \in SocketClient : \A n \in DOMAIN g[c] : g[c][n] \in Answerable
    OBVIOUS
  <1> QED
    BY <1>1, <1>2, SendableFits, AnswerableFits

LEMMA ProxiesInitInv == Proxies!Init => ProxiesInv
  <1> SUFFICES ASSUME Proxies!Init PROVE ProxiesInv
    OBVIOUS
  <1>1. Sent
    BY DEF Proxies!Init, Sent
  <1>2. Proxies!TypeOK
    BY <1>1, Kinds DEF Proxies!Init, Proxies!TypeOK, Sent
  <1>3. Attached /\ Fresh /\ Asked /\ AnsweredFirst /\ ListensLater
    BY DEF Proxies!Init, Attached, Fresh, Asked, AnsweredFirst, ListensLater
  <1>5. AskedAlive
    BY DEF Proxies!Init, AskedAlive
  <1>4. Proxies!IndexesAgree /\ Proxies!DisconnectsLiving /\ Proxies!FaultsTold
    BY DEF Proxies!Init, Proxies!IndexesAgree, Proxies!DisconnectsLiving, Proxies!FaultsTold
  <1> QED
    BY <1>1, <1>2, <1>3, <1>4, <1>5 DEF ProxiesInv

LEMMA ObjectRequestPreserves ==
  ASSUME ProxiesInv, NEW c \in SocketClient, Proxies!ObjectRequest(c) PROVE ProxiesInv'
  <1> USE DEF ProxiesInv
  <1>1. toService \in [SocketClient -> Seq(Sendable)] /\ toClient \in [SocketClient -> Seq(Answerable)]
    BY DEF Sent
  <1>2. toService[c] = <<[kind |-> "create"]>> /\ toClient[c] = <<>> /\ socketProxy[c] = "asked"
        /\ intercept[c] # "connected"
    <2>1. toService[c] \in Seq(Sendable) /\ toService[c] # <<>> /\ Head(toService[c]).kind = "create"
      BY <1>1 DEF Proxies!ObjectRequest
    <2>2. 1 \in DOMAIN toService[c] /\ toService[c][1].kind = "create"
      BY <2>1
    <2> QED
      BY <2>2 DEF Asked
  <1>3. toService' = [toService EXCEPT ![c] = <<>>] /\ <<>> \in Seq(Sendable)
    BY <1>2 DEF Proxies!ObjectRequest
  <1>4. /\ toService' \in [SocketClient -> Seq(Sendable)] /\ toService'[c] = <<>>
        /\ \A d \in SocketClient : d # c => toService'[d] = toService[d]
    BY <1>1, <1>3, RowUpdated
  <1>5. UNCHANGED <<direct, endPoint, dangling, socketProxy, waiting, timer, listening, told, misled, running, readNothing>>
    BY DEF Proxies!ObjectRequest, Proxies!faultVars
  <1>6. PICK answer \in Answers : toClient' = [toClient EXCEPT ![c] = Append(@, answer)]
    BY DEF Proxies!ObjectRequest, Answers
  <1>7. <<answer>> \in Seq(Answerable) /\ Append(toClient[c], answer) = <<answer>>
        /\ <<answer>>[1] = answer /\ DOMAIN <<answer>> = {1}
    BY <1>2 DEF Answerable
  <1>8. /\ toClient' \in [SocketClient -> Seq(Answerable)] /\ toClient'[c] = <<answer>>
        /\ \A d \in SocketClient : d # c => toClient'[d] = toClient[d]
    BY <1>1, <1>6, <1>7, RowUpdated
  <1>9. /\ object' \in [SocketObj -> {"unborn", "alive", "doomed", "dead"}]
        /\ serving' \in [SocketClient -> SocketObj \cup {NoObj}]
        /\ intercept' \in [SocketClient -> {"none", "connected", "cleared", "gone"}]
        /\ \A d \in SocketClient : d # c => serving'[d] = serving[d] /\ intercept'[d] = intercept[d]
        /\ \A o \in SocketObj : object'[o] = "dead" => object[o] = "dead"
        /\ intercept'[c] = "connected" => serving'[c] \in SocketObj /\ object'[serving'[c]] # "dead"
    <2>1. /\ object \in [SocketObj -> {"unborn", "alive", "doomed", "dead"}]
          /\ serving \in [SocketClient -> SocketObj \cup {NoObj}]
          /\ intercept \in [SocketClient -> {"none", "connected", "cleared", "gone"}]
      BY DEF Proxies!TypeOK
    <2>2. CASE UNCHANGED <<object, serving, intercept>>
      BY <1>2, <2>1, <2>2
    <2>3. ASSUME NEW o \in SocketObj, object' = [object EXCEPT ![o] = "alive"],
                 serving' = [serving EXCEPT ![c] = o], intercept' = [intercept EXCEPT ![c] = "connected"]
          PROVE  <1>9!:
      BY <2>1, <2>3
    <2> QED
      BY <2>2, <2>3 DEF Proxies!ObjectRequest
  <1>10. Sent'
    BY <1>4, <1>8 DEF Sent
  <1>11. Proxies!TypeOK'
    BY <1>4, <1>5, <1>8, <1>9, Kinds DEF Proxies!TypeOK
  <1>12. Attached'
    BY <1>9 DEF Attached, Proxies!TypeOK
  <1>13. Fresh' /\ Asked'
    <2>1. Fresh'
      BY <1>2, <1>4, <1>5, <1>8, <1>9 DEF Fresh
    <2>2. ASSUME NEW d \in SocketClient, d # c, NEW n \in DOMAIN toService'[d], toService'[d][n].kind = "create"
          PROVE  /\ toService'[d] = <<[kind |-> "create"]>> /\ toClient'[d] = <<>>
                 /\ socketProxy'[d] = "asked" /\ intercept'[d] # "connected"
      <3>1. toService'[d] = toService[d] /\ toClient'[d] = toClient[d] /\ socketProxy'[d] = socketProxy[d]
            /\ intercept'[d] = intercept[d]
        BY <1>4, <1>5, <1>8, <1>9, <2>2
      <3>2. n \in DOMAIN toService[d] /\ toService[d][n].kind = "create"
        BY <2>2, <3>1
      <3>3. /\ toService[d] = <<[kind |-> "create"]>> /\ toClient[d] = <<>>
            /\ socketProxy[d] = "asked" /\ intercept[d] # "connected"
        BY <3>2 DEF Asked
      <3> QED
        BY <3>1, <3>3
    <2>3. DOMAIN toService'[c] = {}
      BY <1>4
    <2> QED
      BY <2>1, <2>2, <2>3 DEF Asked
  <1>16. AskedAlive'
    <2>1. ASSUME NEW d \in SocketClient, NEW n \in DOMAIN toService'[d] PROVE toService'[d] = toService[d]
      BY <1>4
    <2> QED
      BY <1>5, <2>1 DEF AskedAlive
  <1>14. AnsweredFirst' /\ ListensLater'
    BY <1>2, <1>5, <1>7, <1>8 DEF AnsweredFirst, ListensLater
  <1>15. Proxies!IndexesAgree' /\ Proxies!DisconnectsLiving' /\ Proxies!FaultsTold'
    BY <1>5 DEF Proxies!IndexesAgree, Proxies!DisconnectsLiving, Proxies!FaultsTold
  <1> QED
    BY <1>10, <1>11, <1>12, <1>13, <1>14, <1>15, <1>16

\* What is put behind the answers a client has.
LEMMA AnswersKept ==
  ASSUME NEW s \in Seq(Answerable), NEW m \in Answerable, m.kind \notin {"created", "refused"}
  PROVE  /\ Append(s, m) \in Seq(Answerable)
         /\ \A n \in DOMAIN Append(s, m) : Append(s, m)[n].kind \in {"created", "refused"} =>
              n \in DOMAIN s /\ s[n] = Append(s, m)[n]
  <1>1. DOMAIN Append(s, m) = 1..(Len(s) + 1) /\ DOMAIN s = 1..Len(s) /\ Len(s) \in Nat
    OBVIOUS
  <1>2. Append(s, m)[Len(s) + 1] = m /\ \A n \in 1..Len(s) : Append(s, m)[n] = s[n]
    OBVIOUS
  <1>3. ASSUME NEW n \in DOMAIN Append(s, m), Append(s, m)[n].kind \in {"created", "refused"}
        PROVE  n \in DOMAIN s /\ s[n] = Append(s, m)[n]
    <2>1. n # Len(s) + 1
      BY <1>2, <1>3
    <2>2. n \in 1..Len(s)
      BY <1>1, <2>1
    <2> QED
      BY <1>1, <1>2, <2>2
  <1> QED
    BY <1>3

LEMMA ProxiesEmitPreserves ==
  ASSUME ProxiesInv, NEW o \in SocketObj, NEW i \in Proxies!SignalIndexes, Proxies!EmitSignal(o, i) PROVE ProxiesInv'
  <1> USE DEF ProxiesInv
  <1>1. toService \in [SocketClient -> Seq(Sendable)] /\ toClient \in [SocketClient -> Seq(Answerable)]
    BY DEF Sent
  <1>2. UNCHANGED <<direct, object, serving, endPoint, intercept, dangling, toService, socketProxy, waiting,
                    timer, listening, told, misled, running, readNothing>>
    BY DEF Proxies!EmitSignal, Proxies!serviceVars, Proxies!faultVars
  <1>3. ProxiesSignalOf(i) \in Answerable /\ ProxiesSignalOf(i).kind = "signal"
    BY DEF Answerable, ProxiesSignalOf
  <1>4. \A c \in SocketClient : toClient'[c] = toClient[c] \/
          (intercept[c] = "connected" /\ toClient'[c] = Append(toClient[c], ProxiesSignalOf(i)))
    BY DEF Proxies!EmitSignal, ProxiesSignalOf
  <1>5. ASSUME NEW c \in SocketClient
        PROVE  /\ toClient'[c] \in Seq(Answerable)
               /\ \A n \in DOMAIN toClient'[c] : toClient'[c][n].kind \in {"created", "refused"} =>
                    n \in DOMAIN toClient[c] /\ toClient[c][n] = toClient'[c][n]
    <2>0. toClient[c] \in Seq(Answerable)
      BY <1>1
    <2>1. CASE toClient'[c] = toClient[c]
      BY <2>0, <2>1
    <2>2. CASE toClient'[c] = Append(toClient[c], ProxiesSignalOf(i))
      BY <1>3, <2>0, <2>2, AnswersKept
    <2> QED
      BY <1>4, <2>1, <2>2
  <1>6. toClient' \in [SocketClient -> Seq(Answerable)]
    BY <1>5 DEF Proxies!EmitSignal
  <1>7. Sent'
    BY <1>1, <1>2, <1>6 DEF Sent
  <1>8. Proxies!TypeOK'
    BY <1>1, <1>2, <1>6, Kinds DEF Proxies!TypeOK
  <1>9. Attached' /\ ListensLater' /\ AskedAlive'
    BY <1>2 DEF Attached, ListensLater, AskedAlive
  <1>10. Fresh'
    BY <1>2, <1>4 DEF Fresh
  <1>11. Asked'
    BY <1>2, <1>4 DEF Asked
  <1>12. AnsweredFirst'
    BY <1>2, <1>5 DEF AnsweredFirst
  <1>13. Proxies!IndexesAgree' /\ Proxies!DisconnectsLiving' /\ Proxies!FaultsTold'
    BY <1>2 DEF Proxies!IndexesAgree, Proxies!DisconnectsLiving, Proxies!FaultsTold
  <1> QED
    BY <1>7, <1>8, <1>9, <1>10, <1>11, <1>12, <1>13


LEMMA RestOf ==
  ASSUME NEW S, NEW s \in Seq(S), s # <<>>
  PROVE  /\ Tail(s) \in Seq(S) /\ Head(s) \in S /\ Head(s) = s[1] /\ 1 \in DOMAIN s
         /\ \A n \in DOMAIN Tail(s) : n + 1 \in DOMAIN s /\ Tail(s)[n] = s[n + 1] /\ n + 1 # 1
  OBVIOUS

LEMMA MethodCallPreserves ==
  ASSUME ProxiesInv, NEW c \in SocketClient, Proxies!MethodCall(c) PROVE ProxiesInv'
  <1> USE DEF ProxiesInv
  <1>1. toService \in [SocketClient -> Seq(Sendable)] /\ toClient \in [SocketClient -> Seq(Answerable)]
    BY DEF Sent
  <1>2. toService[c] \in Seq(Sendable) /\ toService[c] # <<>> /\ Head(toService[c]).kind = "call"
    BY <1>1 DEF Proxies!MethodCall
  <1>3. UNCHANGED <<direct, object, serving, endPoint, intercept, dangling, socketProxy, waiting,
                    timer, listening, told, running, readNothing>>
    BY DEF Proxies!MethodCall, Proxies!serviceVars, Proxies!faultVars
  <1> DEFINE m == Head(toService[c])
             rest == Tail(toService[c])
             answer == [kind |-> "answer", name |-> m.name]
  <1>4. /\ m.index \in DOMAIN Proxies!Remote /\ Proxies!Remote[m.index].name = m.name /\ Proxies!Remote[m.index].arity <= 10
        /\ rest \in Seq(Sendable)
        /\ toService[c][1].kind = "call" /\ 1 \in DOMAIN toService[c]
        /\ \A n \in DOMAIN rest : n + 1 \in DOMAIN toService[c] /\ rest[n] = toService[c][n + 1]
    BY <1>2, RestOf, SendableFits
  <1>5. ASSUME NEW n \in DOMAIN toService[c] PROVE toService[c][n].kind # "create"
    <2>1. SUFFICES ASSUME toService[c][n].kind = "create" PROVE FALSE
      OBVIOUS
    <2>2. toService[c] = <<[kind |-> "create"]>>
      BY <2>1 DEF Asked
    <2> QED
      BY <1>4, <2>2
  <1>6. answer \in Answerable /\ answer.kind = "answer"
    BY <1>4 DEF Answerable, Proxies!Names
  <1>7. toService' = [toService EXCEPT ![c] = rest]
        /\ (toClient' = toClient \/ toClient' = [toClient EXCEPT ![c] = Append(@, answer)])
    BY DEF Proxies!MethodCall
  <1>8. misled' = misled
    <2> DEFINE wrong == Proxies!Remote[m.index].name # m.name \/ Proxies!Remote[m.index].arity > 10
    <2>1. misled' = (misled \/ wrong)
      BY DEF Proxies!MethodCall
    <2>2. ~wrong
      <3>1. Proxies!Remote[m.index] \in Method
        BY <1>4, Layout
      <3>2. Proxies!Remote[m.index].arity \in Nat
        BY <3>1 DEF Method
      <3> QED
        BY <1>4, <3>2
    <2>3. misled \in BOOLEAN
      BY DEF Proxies!TypeOK
    <2> HIDE DEF wrong
    <2> QED
      BY <2>1, <2>2, <2>3
  <1> HIDE DEF m, rest, answer
  <1>9. /\ toService' \in [SocketClient -> Seq(Sendable)]
        /\ toService'[c] = rest /\ \A d \in SocketClient : d # c => toService'[d] = toService[d]
    BY <1>1, <1>4, <1>7, RowUpdated
  <1>10. ASSUME NEW d \in SocketClient
         PROVE  /\ toClient'[d] \in Seq(Answerable)
                /\ \A n \in DOMAIN toClient'[d] : toClient'[d][n].kind \in {"created", "refused"} =>
                     n \in DOMAIN toClient[d] /\ toClient[d][n] = toClient'[d][n]
                /\ d # c => toClient'[d] = toClient[d]
    <2>0. toClient[d] \in Seq(Answerable)
      BY <1>1
    <2>1. CASE toClient'[d] = toClient[d]
      BY <2>0, <2>1
    <2>2. CASE toClient'[d] # toClient[d]
      <3>1. d = c /\ toClient'[c] = Append(toClient[c], answer)
        BY <1>1, <1>7, <2>2
      <3> QED
        BY <1>6, <2>0, <3>1, AnswersKept
    <2> QED
      BY <2>1, <2>2
  <1>11. toClient' \in [SocketClient -> Seq(Answerable)]
    <2>1. toClient' = [d \in SocketClient |-> toClient'[d]]
      BY <1>1, <1>7
    <2> QED
      BY <1>10, <2>1
  <1>12. Sent'
    BY <1>9, <1>11 DEF Sent
  <1>13. Proxies!TypeOK'
    BY <1>3, <1>8, <1>9, <1>11, Kinds DEF Proxies!TypeOK
  <1>14. Attached' /\ ListensLater'
    BY <1>3 DEF Attached, ListensLater
  <1>15. socketProxy[c] # "none"
    BY <1>2 DEF Fresh
  <1>16. Fresh'
    BY <1>3, <1>9, <1>10, <1>15 DEF Fresh
  <1>17. ASSUME NEW d \in SocketClient, NEW n \in DOMAIN toService'[d], toService'[d][n].kind = "create"
         PROVE  d # c /\ n \in DOMAIN toService[d] /\ toService[d][n].kind = "create"
                /\ toService'[d] = toService[d]
    <2>1. d # c
      BY <1>4, <1>5, <1>9, <1>17
    <2> QED
      BY <1>9, <1>17, <2>1
  <1>18. Asked'
    <2> SUFFICES ASSUME NEW d \in SocketClient, NEW n \in DOMAIN toService'[d], toService'[d][n].kind = "create"
                 PROVE  /\ toService'[d] = <<[kind |-> "create"]>> /\ toClient'[d] = <<>>
                        /\ socketProxy'[d] = "asked" /\ intercept'[d] # "connected"
      BY DEF Asked
    <2>1. /\ toService[d] = <<[kind |-> "create"]>> /\ toClient[d] = <<>>
          /\ socketProxy[d] = "asked" /\ intercept[d] # "connected"
      BY <1>17 DEF Asked
    <2> QED
      BY <1>3, <1>10, <1>17, <2>1
  <1>19. AskedAlive'
    BY <1>3, <1>17 DEF AskedAlive
  <1>20. AnsweredFirst'
    BY <1>3, <1>10 DEF AnsweredFirst
  <1>21. Proxies!IndexesAgree' /\ Proxies!DisconnectsLiving' /\ Proxies!FaultsTold'
    BY <1>3, <1>8 DEF Proxies!IndexesAgree, Proxies!DisconnectsLiving, Proxies!FaultsTold
  <1> QED
    BY <1>12, <1>13, <1>14, <1>16, <1>18, <1>19, <1>20, <1>21

\* The end points of the service and their intercepters come and go, and what is
\* on the way stays.
LEMMA ObjectsPreserves ==
  ASSUME ProxiesInv,
         UNCHANGED <<direct, serving, toService, socketProxy, waiting, timer, listening, told, misled, running,
                     readNothing>>,
         \/ \E c \in SocketClient : Proxies!Disconnected(c) \/ Proxies!EndPointDeleted(c)
         \/ \E o \in SocketObj : Proxies!ObjectDeleted(o)
  PROVE  ProxiesInv'
  <1> USE DEF ProxiesInv
  <1>1. /\ object \in [SocketObj -> {"unborn", "alive", "doomed", "dead"}]
        /\ serving \in [SocketClient -> SocketObj \cup {NoObj}]
        /\ intercept \in [SocketClient -> {"none", "connected", "cleared", "gone"}]
        /\ endPoint \in [SocketClient -> {"none", "open", "leaving", "gone"}]
        /\ toService \in [SocketClient -> Seq(Sendable)] /\ toClient \in [SocketClient -> Seq(Answerable)]
    BY DEF Proxies!TypeOK, Sent
  <1>2. /\ object' \in [SocketObj -> {"unborn", "alive", "doomed", "dead"}]
        /\ intercept' \in [SocketClient -> {"none", "connected", "cleared", "gone"}]
        /\ endPoint' \in [SocketClient -> {"none", "open", "leaving", "gone"}]
        /\ \A c \in SocketClient : intercept'[c] = "connected" => intercept[c] = "connected"
        /\ \A c \in SocketClient : intercept'[c] = "connected" /\ object[serving[c]] # "dead" /\ serving[c] \in SocketObj
              => object'[serving[c]] # "dead"
    <2>1. ASSUME NEW c \in SocketClient, Proxies!Disconnected(c) PROVE <1>2!:
      <3>1. (object' = object \/ (serving[c] # NoObj /\ object' = [object EXCEPT ![serving[c]] = "doomed"]))
            /\ intercept' = intercept /\ endPoint' = [endPoint EXCEPT ![c] = "leaving"]
        BY <2>1 DEF Proxies!Disconnected
      <3> QED
        BY <1>1, <3>1
    <2>2. ASSUME NEW c \in SocketClient, Proxies!EndPointDeleted(c) PROVE <1>2!:
      BY <1>1, <2>2 DEF Proxies!EndPointDeleted
    <2>3. ASSUME NEW o \in SocketObj, Proxies!ObjectDeleted(o) PROVE <1>2!:
      BY <1>1, <2>3 DEF Proxies!ObjectDeleted
    <2> QED
      BY <2>1, <2>2, <2>3
  <1>3. \A d \in SocketClient : toClient'[d] = toClient[d] \/ toClient'[d] = <<>>
    BY <1>1 DEF Proxies!Disconnected, Proxies!EndPointDeleted, Proxies!ObjectDeleted
  <1>4. toClient' \in [SocketClient -> Seq(Answerable)]
    <2>1. <<>> \in Seq(Answerable)
      OBVIOUS
    <2>2. toClient' = toClient \/ \E c \in SocketClient : toClient' = [toClient EXCEPT ![c] = <<>>]
      BY DEF Proxies!Disconnected, Proxies!EndPointDeleted, Proxies!ObjectDeleted
    <2> QED
      BY <1>1, <2>1, <2>2
  <1>5. dangling' = dangling
    <2>1. ASSUME NEW c \in SocketClient, Proxies!EndPointDeleted(c) PROVE dangling' = dangling
      <3>1. ~(intercept[c] = "connected" /\ object[serving[c]] = "dead")
        BY DEF Attached
      <3> QED
        BY <2>1, <3>1 DEF Proxies!EndPointDeleted, Proxies!TypeOK
    <2> QED
      BY <2>1 DEF Proxies!Disconnected, Proxies!ObjectDeleted
  <1>6. Sent'
    BY <1>1, <1>4 DEF Sent
  <1>7. Proxies!TypeOK'
    BY <1>1, <1>2, <1>4, <1>5, Kinds DEF Proxies!TypeOK
  <1>8. Attached'
    BY <1>2 DEF Attached
  <1>9. Fresh' /\ Asked'
    BY <1>2, <1>3 DEF Fresh, Asked
  <1>10. AnsweredFirst'
    <2>1. \A c \in SocketClient : \A n \in DOMAIN toClient'[c] : toClient'[c] = toClient[c]
      BY <1>3
    <2> QED
      BY <2>1 DEF AnsweredFirst
  <1>11. AskedAlive' /\ ListensLater'
    BY DEF AskedAlive, ListensLater
  <1>12. Proxies!IndexesAgree' /\ Proxies!DisconnectsLiving' /\ Proxies!FaultsTold'
    BY <1>5 DEF Proxies!IndexesAgree, Proxies!DisconnectsLiving, Proxies!FaultsTold
  <1> QED
    BY <1>6, <1>7, <1>8, <1>9, <1>10, <1>11, <1>12

LEMMA ProxiesAskPreserves ==
  ASSUME ProxiesInv, NEW c \in SocketClient, Proxies!Ask(c) PROVE ProxiesInv'
  <1> USE DEF ProxiesInv
  <1>1. /\ toService \in [SocketClient -> Seq(Sendable)] /\ toClient \in [SocketClient -> Seq(Answerable)]
        /\ socketProxy \in [SocketClient -> {"none", "asked", "made", "ready", "failed", "deleted"}]
        /\ endPoint \in [SocketClient -> {"none", "open", "leaving", "gone"}]
    BY DEF Sent, Proxies!TypeOK
  <1>2. UNCHANGED <<direct, object, serving, intercept, dangling, toClient, waiting, timer, listening,
                    told, misled, running, readNothing>>
    BY DEF Proxies!Ask, Proxies!faultVars
  <1>3. /\ socketProxy[c] = "none" /\ socketProxy' = [socketProxy EXCEPT ![c] = "asked"]
        /\ endPoint' = [endPoint EXCEPT ![c] = "open"]
        /\ toService' = [toService EXCEPT ![c] = <<[kind |-> "create"]>>]
    BY DEF Proxies!Ask
  <1>4. <<[kind |-> "create"]>> \in Seq(Sendable)
    BY DEF Sendable
  <1>5. /\ toService' \in [SocketClient -> Seq(Sendable)] /\ toService'[c] = <<[kind |-> "create"]>>
        /\ \A d \in SocketClient : d # c => toService'[d] = toService[d]
    BY <1>1, <1>3, <1>4, RowUpdated
  <1>6. /\ socketProxy' \in [SocketClient -> {"none", "asked", "made", "ready", "failed", "deleted"}]
        /\ endPoint' \in [SocketClient -> {"none", "open", "leaving", "gone"}]
        /\ socketProxy'[c] = "asked" /\ \A d \in SocketClient : d # c => socketProxy'[d] = socketProxy[d]
    BY <1>1, <1>3
  <1>7. toClient[c] = <<>> /\ intercept[c] # "connected"
    BY <1>3 DEF Fresh
  <1>8. Sent'
    BY <1>1, <1>2, <1>5 DEF Sent
  <1>9. Proxies!TypeOK'
    BY <1>1, <1>2, <1>5, <1>6, Kinds DEF Proxies!TypeOK
  <1>10. Attached' /\ Fresh'
    BY <1>2, <1>5, <1>6 DEF Attached, Fresh
  <1>11. Asked'
    <2> SUFFICES ASSUME NEW d \in SocketClient, NEW n \in DOMAIN toService'[d], toService'[d][n].kind = "create"
                 PROVE  /\ toService'[d] = <<[kind |-> "create"]>> /\ toClient'[d] = <<>>
                        /\ socketProxy'[d] = "asked" /\ intercept'[d] # "connected"
      BY DEF Asked
    <2>1. CASE d = c
      BY <1>2, <1>5, <1>6, <1>7, <2>1
    <2>2. CASE d # c
      <3>1. toService'[d] = toService[d]
        BY <1>5, <2>2
      <3>2. /\ toService[d] = <<[kind |-> "create"]>> /\ toClient[d] = <<>>
            /\ socketProxy[d] = "asked" /\ intercept[d] # "connected"
        BY <3>1 DEF Asked
      <3> QED
        BY <1>2, <1>6, <2>2, <3>1, <3>2
    <2> QED
      BY <2>1, <2>2
  <1>12. AskedAlive'
    BY <1>2 DEF Proxies!Ask, AskedAlive
  <1>13. AnsweredFirst' /\ ListensLater'
    BY <1>2, <1>3, <1>6, <1>7 DEF AnsweredFirst, ListensLater
  <1>14. Proxies!IndexesAgree' /\ Proxies!DisconnectsLiving' /\ Proxies!FaultsTold'
    BY <1>2 DEF Proxies!IndexesAgree, Proxies!DisconnectsLiving, Proxies!FaultsTold
  <1> QED
    BY <1>8, <1>9, <1>10, <1>11, <1>12, <1>13, <1>14

LEMMA PackagePreserves ==
  ASSUME ProxiesInv, NEW c \in SocketClient, Proxies!NewPackageReady(c) PROVE ProxiesInv'
  <1> USE DEF ProxiesInv
  <1> DEFINE m == Head(toClient[c])
             rest == Tail(toClient[c])
  <1>1. /\ toService \in [SocketClient -> Seq(Sendable)] /\ toClient \in [SocketClient -> Seq(Answerable)]
        /\ socketProxy \in [SocketClient -> {"none", "asked", "made", "ready", "failed", "deleted"}]
        /\ waiting \in [SocketClient -> Proxies!Names \cup {Proxies!None}]
    BY DEF Sent, Proxies!TypeOK
  <1>2. timer \in [SocketClient -> BOOLEAN] /\ misled \in BOOLEAN
    BY DEF Proxies!TypeOK
  <1>3. UNCHANGED <<direct, object, serving, endPoint, intercept, dangling, toService, listening, told,
                    running, readNothing>>
    BY DEF Proxies!NewPackageReady, Proxies!serviceVars
  <1>4. toClient[c] \in Seq(Answerable) /\ toClient[c] # <<>>
    BY <1>1 DEF Proxies!NewPackageReady
  <1>5. /\ rest \in Seq(Answerable) /\ m \in Answerable /\ m = toClient[c][1] /\ 1 \in DOMAIN toClient[c]
        /\ \A n \in DOMAIN rest : n + 1 \in DOMAIN toClient[c] /\ rest[n] = toClient[c][n + 1] /\ n + 1 # 1
    BY <1>4, RestOf
  <1>6. toClient' = [toClient EXCEPT ![c] = rest]
        /\ (m.kind = "created" => socketProxy' = [socketProxy EXCEPT ![c] = "made"])
        /\ (m.kind = "refused" => socketProxy' = [socketProxy EXCEPT ![c] = "failed"])
        /\ (m.kind \notin {"created", "refused"} => socketProxy' = socketProxy)
        /\ (waiting' = waiting \/ waiting' = [waiting EXCEPT ![c] = Proxies!None])
    BY DEF Proxies!NewPackageReady
  <1>7. timer' = IF m.kind = "created" THEN [timer EXCEPT ![c] = TRUE] ELSE timer
    BY DEF Proxies!NewPackageReady
  <1>8. misled' = misled
    <2> DEFINE wrong == m.kind = "signal" /\ socketProxy[c] = "ready" /\ ~Proxies!Activates(m)
    <2>1. misled' = (misled \/ wrong)
      BY DEF Proxies!NewPackageReady
    <2>2. ~wrong
      BY <1>5, AnswerableFits
    <2> HIDE DEF wrong
    <2> QED
      BY <1>2, <2>1, <2>2
  <1>9. m.kind \in {"created", "refused"} => socketProxy[c] = "asked"
    BY <1>5 DEF AnsweredFirst
  <1>10. socketProxy[c] \in {"asked", "made", "ready"}
    BY DEF Proxies!NewPackageReady
  <1> HIDE DEF m, rest
  <1>11. /\ toClient' \in [SocketClient -> Seq(Answerable)] /\ toClient'[c] = rest
         /\ \A d \in SocketClient : d # c => toClient'[d] = toClient[d]
    BY <1>1, <1>5, <1>6, RowUpdated
  <1>12. /\ socketProxy' \in [SocketClient -> {"none", "asked", "made", "ready", "failed", "deleted"}]
         /\ socketProxy'[c] # "none" /\ (socketProxy[c] = "ready" => socketProxy'[c] = "ready")
         /\ \A d \in SocketClient : d # c => socketProxy'[d] = socketProxy[d]
         /\ waiting' \in [SocketClient -> Proxies!Names \cup {Proxies!None}]
    BY <1>1, <1>6, <1>9, <1>10
  <1>13. timer' \in [SocketClient -> BOOLEAN]
    BY <1>2, <1>7
  <1>14. Sent'
    BY <1>1, <1>3, <1>11 DEF Sent
  <1>15. Proxies!TypeOK'
    <2>1. misled' \in BOOLEAN
      BY <1>2, <1>8
    <2> QED
      BY <1>1, <1>3, <1>11, <1>12, <1>13, <2>1, Kinds DEF Proxies!TypeOK
  <1>16. Attached' /\ AskedAlive'
    BY <1>3 DEF Attached, AskedAlive
  <1>17. Fresh'
    BY <1>3, <1>11, <1>12 DEF Fresh
  <1>18. Asked'
    <2> SUFFICES ASSUME NEW d \in SocketClient, NEW n \in DOMAIN toService'[d], toService'[d][n].kind = "create"
                 PROVE  /\ toService'[d] = <<[kind |-> "create"]>> /\ toClient'[d] = <<>>
                        /\ socketProxy'[d] = "asked" /\ intercept'[d] # "connected"
      BY DEF Asked
    <2>1. /\ toService[d] = <<[kind |-> "create"]>> /\ toClient[d] = <<>>
          /\ socketProxy[d] = "asked" /\ intercept[d] # "connected"
      BY <1>3 DEF Asked
    <2>2. d # c
      BY <1>4, <2>1
    <2> QED
      BY <1>3, <1>11, <1>12, <2>1, <2>2
  <1>19. AnsweredFirst'
    <2> SUFFICES ASSUME NEW d \in SocketClient, NEW n \in DOMAIN toClient'[d],
                        toClient'[d][n].kind \in {"created", "refused"}
                 PROVE  n = 1 /\ socketProxy'[d] = "asked"
      BY DEF AnsweredFirst
    <2>1. d # c
      BY <1>5, <1>11 DEF AnsweredFirst
    <2> QED
      BY <1>11, <1>12, <2>1 DEF AnsweredFirst
  <1>20. ListensLater'
    <2>1. \A d \in SocketClient : socketProxy[d] \in {"ready", "deleted"} => socketProxy'[d] \in {"ready", "deleted"}
      BY <1>10, <1>12
    <2> QED
      BY <1>3, <2>1 DEF ListensLater
  <1>21. Proxies!IndexesAgree' /\ Proxies!DisconnectsLiving'
    BY <1>3, <1>8 DEF Proxies!IndexesAgree, Proxies!DisconnectsLiving
  <1>22. Proxies!FaultsTold'
    <2>1. CASE m.kind = "created"
      <3>1. ~listening[c]
        BY <1>9, <2>1 DEF ListensLater
      <3>2. \A d \in SocketClient : d # c => timer'[d] = timer[d]
        BY <1>2, <1>7, <2>1
      <3> QED
        BY <1>3, <3>1, <3>2 DEF Proxies!FaultsTold
    <2>2. CASE m.kind # "created"
      BY <1>3, <1>7, <2>2 DEF Proxies!FaultsTold
    <2> QED
      BY <2>1, <2>2
  <1> QED
    BY <1>14, <1>15, <1>16, <1>17, <1>18, <1>19, <1>20, <1>21, <1>22

LEMMA CallPreserves ==
  ASSUME ProxiesInv, NEW c \in SocketClient, NEW i \in DOMAIN Proxies!Local, Proxies!Call(c, i) PROVE ProxiesInv'
  <1> USE DEF ProxiesInv
  <1>1. /\ toService \in [SocketClient -> Seq(Sendable)] /\ toClient \in [SocketClient -> Seq(Answerable)]
        /\ waiting \in [SocketClient -> Proxies!Names \cup {Proxies!None}]
    BY DEF Sent, Proxies!TypeOK
  <1>2. UNCHANGED <<direct, object, serving, endPoint, intercept, dangling, toClient, socketProxy, timer,
                    listening, told, misled, running, readNothing>>
    BY DEF Proxies!Call, Proxies!serviceVars, Proxies!faultVars
  <1>3. socketProxy[c] = "ready" /\ i > Proxies!Base /\ i \in Called
        /\ toService' = [toService EXCEPT ![c] = Append(toService[c], CallOf(i))]
    BY DEF Proxies!Call, Called, CallOf
  <1>4. Proxies!Local[i].name \in Proxies!Names
    <2>1. Proxies!LocalToRemote[i] \in DOMAIN Proxies!Remote /\ Proxies!Remote[Proxies!LocalToRemote[i]] = Proxies!Local[i]
      BY <1>3, CallsFit
    <2> QED
      BY <2>1 DEF Proxies!Names
  <1>5. waiting' \in [SocketClient -> Proxies!Names \cup {Proxies!None}]
    BY <1>1, <1>4 DEF Proxies!Call
  <1>6. CallOf(i) \in Sendable
    BY <1>3 DEF Sendable
  <1>7. toService[c] \in Seq(Sendable)
    BY <1>1
  <1>8. Append(toService[c], CallOf(i)) \in Seq(Sendable)
    BY <1>6, <1>7
  <1>9. /\ toService' \in [SocketClient -> Seq(Sendable)]
        /\ toService'[c] = Append(toService[c], CallOf(i))
        /\ \A d \in SocketClient : d # c => toService'[d] = toService[d]
    BY <1>1, <1>3, <1>8, RowUpdated
  <1>10. ASSUME NEW d \in SocketClient, NEW n \in DOMAIN toService'[d], toService'[d][n].kind = "create"
         PROVE  d # c /\ n \in DOMAIN toService[d] /\ toService[d][n].kind = "create"
                /\ toService'[d] = toService[d]
    <2>1. d # c
      <3>1. SUFFICES ASSUME d = c PROVE FALSE
        OBVIOUS
      <3>2. n \in DOMAIN Append(toService[c], CallOf(i))
            /\ Append(toService[c], CallOf(i))[n].kind = "create"
        BY <1>9, <1>10, <3>1
      <3>3. n = Len(toService[c]) + 1 \/ (n \in DOMAIN toService[c]
              /\ toService[c][n] = Append(toService[c], CallOf(i))[n])
        BY <1>7, <3>2
      <3>4. Append(toService[c], CallOf(i))[Len(toService[c]) + 1] = CallOf(i)
        BY <1>7
      <3>5. CallOf(i).kind = "call"
        BY DEF CallOf
      <3>6. n \in DOMAIN toService[c] /\ toService[c][n].kind = "create"
        BY <3>2, <3>3, <3>4, <3>5
      <3>7. socketProxy[c] = "asked"
        BY <3>6 DEF Asked
      <3> QED
        BY <1>3, <3>7
    <2> QED
      BY <1>9, <1>10, <2>1
  <1>11. Sent'
    BY <1>1, <1>2, <1>9 DEF Sent
  <1>12. Proxies!TypeOK'
    BY <1>1, <1>2, <1>5, <1>9, Kinds DEF Proxies!TypeOK
  <1>13. Attached' /\ AnsweredFirst' /\ ListensLater'
    BY <1>2 DEF Attached, AnsweredFirst, ListensLater
  <1>14. Fresh'
    BY <1>2, <1>3, <1>9 DEF Fresh
  <1>15. Asked'
    <2> SUFFICES ASSUME NEW d \in SocketClient, NEW n \in DOMAIN toService'[d], toService'[d][n].kind = "create"
                 PROVE  /\ toService'[d] = <<[kind |-> "create"]>> /\ toClient'[d] = <<>>
                        /\ socketProxy'[d] = "asked" /\ intercept'[d] # "connected"
      BY DEF Asked
    <2>1. /\ toService[d] = <<[kind |-> "create"]>> /\ toClient[d] = <<>>
          /\ socketProxy[d] = "asked" /\ intercept[d] # "connected"
      BY <1>10 DEF Asked
    <2> QED
      BY <1>2, <1>10, <2>1
  <1>16. AskedAlive'
    BY <1>2, <1>10 DEF AskedAlive
  <1>17. Proxies!IndexesAgree' /\ Proxies!DisconnectsLiving' /\ Proxies!FaultsTold'
    BY <1>2 DEF Proxies!IndexesAgree, Proxies!DisconnectsLiving, Proxies!FaultsTold
  <1> QED
    BY <1>11, <1>12, <1>13, <1>14, <1>15, <1>16, <1>17

\* What the application does with its proxy, and how it hears of a fault.
LEMMA ApplicationPreserves ==
  ASSUME ProxiesInv, NEW c \in SocketClient,
         Proxies!ConstructReturns(c) \/ Proxies!Listen(c) \/ Proxies!TimerEvent(c) \/ Proxies!DeleteProxy(c) \/ Proxies!IpcFault(c)
  PROVE  ProxiesInv'
  <1> USE DEF ProxiesInv
  <1>1. /\ socketProxy \in [SocketClient -> {"none", "asked", "made", "ready", "failed", "deleted"}]
        /\ waiting \in [SocketClient -> Proxies!Names \cup {Proxies!None}]
        /\ told \in [SocketClient -> {"no", "due", "yes"}]
        /\ timer \in [SocketClient -> BOOLEAN] /\ listening \in [SocketClient -> BOOLEAN]
    BY DEF Proxies!TypeOK
  <1>2. UNCHANGED <<direct, object, serving, endPoint, intercept, dangling, toService, toClient,
                    misled, running>>
    BY DEF Proxies!ConstructReturns, Proxies!Listen, Proxies!TimerEvent, Proxies!DeleteProxy,
       Proxies!IpcFault, Proxies!serviceVars
  <1>3. CASE Proxies!ConstructReturns(c) \/ Proxies!DeleteProxy(c) \/ Proxies!IpcFault(c)
    <2>0. \A d \in SocketClient : d # c => socketProxy'[d] = socketProxy[d]
      BY <1>1, <1>3 DEF Proxies!ConstructReturns, Proxies!DeleteProxy, Proxies!IpcFault
    <2>1. /\ socketProxy' \in [SocketClient -> {"none", "asked", "made", "ready", "failed", "deleted"}]
          /\ waiting' \in [SocketClient -> Proxies!Names \cup {Proxies!None}]
          /\ told' \in [SocketClient -> {"no", "due", "yes"}]
          /\ socketProxy'[c] # "none"
          /\ socketProxy[c] \in {"ready", "deleted"} => socketProxy'[c] \in {"ready", "deleted"}
      BY <1>1, <1>3 DEF Proxies!ConstructReturns, Proxies!DeleteProxy, Proxies!IpcFault,
         Proxies!faultVars
    <2>2. /\ timer' \in [SocketClient -> BOOLEAN] /\ listening' = listening
          /\ \A d \in SocketClient : timer'[d] => timer[d]
      BY <1>1, <1>3 DEF Proxies!ConstructReturns, Proxies!DeleteProxy, Proxies!IpcFault,
         Proxies!faultVars
    <2>3. readNothing' \subseteq SocketClient
      BY <1>3 DEF Proxies!ConstructReturns, Proxies!DeleteProxy, Proxies!IpcFault, Proxies!TypeOK
    <2>4. socketProxy[c] = "asked" /\ socketProxy'[c] # "asked" => ~running /\ toClient[c] = <<>>
      BY <1>3 DEF Proxies!ConstructReturns, Proxies!DeleteProxy, Proxies!IpcFault
    <2>5. Proxies!TypeOK' /\ Sent' /\ Attached' /\ AskedAlive'
      <3>1. Sent' /\ Attached' /\ AskedAlive'
        BY <1>2 DEF Sent, Attached, AskedAlive
      <3>2. Proxies!TypeOK'
        BY <1>1, <1>2, <2>1, <2>2, <2>3 DEF Proxies!TypeOK
      <3> QED
        BY <3>1, <3>2
    <2>6. Fresh' /\ ListensLater'
      BY <1>2, <2>0, <2>1, <2>2 DEF Fresh, ListensLater
    <2>7. Asked'
      <3> SUFFICES ASSUME NEW d \in SocketClient, NEW n \in DOMAIN toService[d], toService[d][n].kind = "create"
                   PROVE  /\ toService[d] = <<[kind |-> "create"]>> /\ toClient[d] = <<>>
                          /\ socketProxy'[d] = "asked" /\ intercept[d] # "connected"
        BY <1>2 DEF Asked
      <3>1. /\ toService[d] = <<[kind |-> "create"]>> /\ toClient[d] = <<>>
            /\ socketProxy[d] = "asked" /\ intercept[d] # "connected"
        BY DEF Asked
      <3>2. running
        BY DEF AskedAlive
      <3> QED
        BY <2>0, <2>4, <3>1, <3>2
    <2>8. AnsweredFirst'
      <3> SUFFICES ASSUME NEW d \in SocketClient, NEW n \in DOMAIN toClient[d],
                          toClient[d][n].kind \in {"created", "refused"}
                   PROVE  n = 1 /\ socketProxy'[d] = "asked"
        BY <1>2 DEF AnsweredFirst
      <3>1. n = 1 /\ socketProxy[d] = "asked"
        BY DEF AnsweredFirst
      <3> QED
        BY <2>0, <2>4, <3>1
    <2>9. Proxies!FaultsTold'
      <3>1. ASSUME ~Proxies!Shadowed, NEW d \in SocketClient, told'[d] = "due" PROVE told[d] = "due"
        <4>1. Proxies!IndexOf(Proxies!Local, Fault) = Proxies!Base
          BY <3>1, FaultIndex
        <4> QED
          BY <1>1, <1>3, <3>1, <4>1 DEF Proxies!ConstructReturns, Proxies!DeleteProxy,
             Proxies!IpcFault, Proxies!faultVars
      <3> QED
        BY <2>2, <3>1 DEF Proxies!FaultsTold
    <2> QED
      BY <1>2, <2>5, <2>6, <2>7, <2>8, <2>9 DEF Proxies!IndexesAgree, Proxies!DisconnectsLiving
  <1>4. CASE Proxies!Listen(c) \/ Proxies!TimerEvent(c)
    <2>1. UNCHANGED <<socketProxy, waiting, told, readNothing>>
      BY <1>4 DEF Proxies!Listen, Proxies!TimerEvent
    <2>2. timer' \in [SocketClient -> BOOLEAN] /\ listening' \in [SocketClient -> BOOLEAN]
          /\ (\A d \in SocketClient : timer'[d] => timer[d])
          /\ (\A d \in SocketClient : listening'[d] => listening[d] \/ (d = c /\ socketProxy[c] = "ready"))
      BY <1>1, <1>4 DEF Proxies!Listen, Proxies!TimerEvent
    <2>3. Proxies!TypeOK' /\ Sent' /\ Attached' /\ AskedAlive' /\ Asked' /\ Fresh' /\ AnsweredFirst'
      <3>1. Sent' /\ Attached' /\ AskedAlive' /\ Asked' /\ Fresh' /\ AnsweredFirst'
        BY <1>2, <2>1 DEF Sent, Attached, AskedAlive, Asked, Fresh, AnsweredFirst
      <3>2. Proxies!TypeOK'
        BY <1>2, <2>1, <2>2 DEF Proxies!TypeOK
      <3> QED
        BY <3>1, <3>2
    <2>4. ListensLater'
      BY <2>1, <2>2 DEF ListensLater
    <2>5. Proxies!FaultsTold'
      <3>1. ASSUME ~Proxies!Shadowed, NEW d \in SocketClient, listening'[d] PROVE ~timer'[d]
        <4>1. CASE listening[d]
          BY <2>2, <3>1, <4>1 DEF Proxies!FaultsTold
        <4>2. CASE ~listening[d]
          <5>1. Proxies!IndexOf(Proxies!Local, Fault) = Proxies!Base
            BY <3>1, FaultIndex
          <5>2. d = c /\ Proxies!Listen(c)
            BY <1>1, <1>4, <2>2, <3>1, <4>2 DEF Proxies!TimerEvent
          <5> QED
            BY <1>1, <5>1, <5>2 DEF Proxies!Listen
        <4> QED
          BY <4>1, <4>2
      <3> QED
        BY <2>1, <3>1 DEF Proxies!FaultsTold
    <2> QED
      BY <1>2, <2>3, <2>4, <2>5 DEF Proxies!IndexesAgree, Proxies!DisconnectsLiving
  <1> QED
    BY <1>3, <1>4

LEMMA DeathPreserves ==
  ASSUME ProxiesInv, Proxies!ServiceDies PROVE ProxiesInv'
  <1> USE DEF ProxiesInv
  <1>1. /\ UNCHANGED <<direct, serving, dangling, toClient, socketProxy, waiting, timer, listening, told,
                        misled, readNothing>>
        /\ object' = [o \in SocketObj |-> "dead"] /\ endPoint' = [c \in SocketClient |-> "gone"]
        /\ intercept' = [c \in SocketClient |-> "gone"] /\ toService' = [c \in SocketClient |-> <<>>]
    BY DEF Proxies!ServiceDies, Proxies!faultVars
  <1>2. toService' \in [SocketClient -> Seq(Sendable)] /\ toClient' \in [SocketClient -> Seq(Answerable)]
    BY <1>1 DEF Sent
  <1>3. Sent' /\ Attached' /\ Fresh' /\ Asked' /\ AnsweredFirst' /\ ListensLater'
    BY <1>1, <1>2 DEF Sent, Attached, Fresh, Asked, AnsweredFirst, ListensLater
  <1>4. AskedAlive'
    BY <1>1 DEF AskedAlive
  <1>5. running' \in BOOLEAN
    BY DEF Proxies!ServiceDies
  <1>6. Proxies!TypeOK'
    BY <1>1, <1>2, <1>5, Kinds DEF Proxies!TypeOK
  <1>7. Proxies!IndexesAgree' /\ Proxies!DisconnectsLiving' /\ Proxies!FaultsTold'
    BY <1>1 DEF Proxies!IndexesAgree, Proxies!DisconnectsLiving, Proxies!FaultsTold
  <1> QED
    BY <1>3, <1>4, <1>6, <1>7

LEMMA ProxiesPreserves ==
  ASSUME ProxiesInv, [Proxies!Next]_(Proxies!vars) PROVE ProxiesInv'
  <1>1. CASE UNCHANGED Proxies!vars
    BY <1>1 DEF Proxies!vars, ProxiesInv, Proxies!TypeOK, Sent, Attached, Fresh, Asked, AskedAlive,
       AnsweredFirst,
                ListensLater, Proxies!IndexesAgree, Proxies!DisconnectsLiving, Proxies!FaultsTold
  <1>2. ASSUME NEW c \in SocketClient, Proxies!Disconnected(c) \/ Proxies!EndPointDeleted(c) PROVE ProxiesInv'
    <2>1. UNCHANGED <<direct, serving, toService, socketProxy, waiting, timer, listening, told, misled, running,
                      readNothing>>
      BY <1>2 DEF Proxies!Disconnected, Proxies!EndPointDeleted, Proxies!faultVars
    <2> QED
      BY <1>2, <2>1, ObjectsPreserves
  <1>3. ASSUME NEW o \in SocketObj, Proxies!ObjectDeleted(o) PROVE ProxiesInv'
    <2>1. UNCHANGED <<direct, serving, toService, socketProxy, waiting, timer, listening, told, misled, running,
                      readNothing>>
      BY <1>3 DEF Proxies!ObjectDeleted, Proxies!faultVars
    <2> QED
      BY <1>3, <2>1, ObjectsPreserves
  <1> QED
    BY <1>1, <1>2, <1>3, ObjectRequestPreserves, ProxiesEmitPreserves, MethodCallPreserves,
       ProxiesAskPreserves, PackagePreserves, CallPreserves,
       ApplicationPreserves, DeathPreserves DEF Proxies!Next
-----------------------------------------------------------------------------
(***************************************************************************)
(* The framework.                                                          *)
(***************************************************************************)
FrameworkInv ==
  /\ IInv
  /\ active = "dbus" => DBusInv
  /\ active = "file" => FileInv
  /\ active = "manager" => ManagerInv
  /\ active = "metaData" => MetaInv
  /\ active = "loader" => LoaderInv
  /\ active = "lists" => ListsInv
  /\ active = "busObject" => BusInv
  /\ active = "proxies" => ProxiesInv

LEMMA FrameworkInitInv == FrameworkInit => FrameworkInv
  <1> SUFFICES ASSUME FrameworkInit PROVE FrameworkInv
    OBVIOUS
  <1>1. Init
    BY DEF FrameworkInit, OthersIdle
  <1>2. IInv
    BY <1>1, InitEstablishes
  <1> QED
    BY <1>2, DBusInitInv, FileInitInv, ManagerInitInv, MetaInitInv, LoaderInitInv, ListsInitInv,
       BusInitInv, ProxiesInitInv DEF FrameworkInit, FrameworkInv

\* A step of another part leaves the D-Bus backend and the reader as they are.
LEMMA DBusStutters == DBusInv /\ UNCHANGED dbusVars => DBusInv'
  <1> SUFFICES ASSUME DBusInv, UNCHANGED dbusVars PROVE DBusInv'
    OBVIOUS
  <1> USE DEF DBusInv, dbusVars
  <1>1. DBus!TypeOK'
    BY DEF DBus!TypeOK
  <1>2. KnownIds' /\ SharedOrPrivate' /\ Apart'
    BY DEF KnownIds, SharedOrPrivate, Apart, DBus!Instances
  <1>3. RequestsFit' /\ RepliesFit'
    BY DEF RequestsFit, RepliesFit
  <1>4. BoundFits' /\ Held' /\ AloneUnlessShared'
    BY DEF BoundFits, Held, AloneUnlessShared, Has, DBus!Instances
  <1>5. SharedCounts' /\ ProxiesCounted' /\ FaultsGone' /\ RecordsFit'
    BY DEF SharedCounts, ProxiesCounted, FaultsGone, RecordsFit, DBus!Instances, DBusCounted, Live, Has
  <1> QED
    BY <1>1, <1>2, <1>3, <1>4, <1>5

LEMMA MetaStutters == MetaInv /\ UNCHANGED metaVars => MetaInv'
  <1> SUFFICES ASSUME MetaInv, UNCHANGED metaVars PROVE MetaInv'
    OBVIOUS
  <1> USE DEF MetaInv, metaVars
  <1>1. Meta!TypeOK'
    BY DEF Meta!TypeOK
  <1>2. MetaFits'
    BY DEF MetaFits, InterfaceFits
  <1>3. Meta!ResultConsistent'
    BY DEF Meta!ResultConsistent
  <1> QED
    BY <1>1, <1>2, <1>3

LEMMA FrameworkPreserves == FrameworkInv /\ [FrameworkNext]_frameworkVars => FrameworkInv'
  <1> SUFFICES ASSUME FrameworkInv, [FrameworkNext]_frameworkVars PROVE FrameworkInv'
    OBVIOUS
  <1>1. IInv'
    <2>1. [Next]_databaseVars
      BY DEF FrameworkNext, frameworkVars, DatabaseStep, DBusStep, FileStep, ManagerStep, MetaStep,
             LoaderStep, ListsStep, BusStep, ProxiesStep
    <2>2. IInv
      BY DEF FrameworkInv
    <2> QED
      BY <2>1, <2>2, StepPreserves
  <1>2. CASE DatabaseStep
    BY <1>1, <1>2 DEF DatabaseStep, FrameworkInv
  <1>3. CASE DBusStep
    <2>1. active = "dbus" /\ active' = active /\ DBus!Next /\ DBusInv
      BY <1>3 DEF DBusStep, FrameworkInv
    <2> QED
      BY <1>1, <2>1, DBusPreserves DEF FrameworkInv
  <1>4. CASE FileStep
    <2>1. active = "file" /\ active' = active /\ File!Next /\ FileInv
      BY <1>4 DEF FileStep, FrameworkInv
    <2> QED
      BY <1>1, <2>1, FilePreserves DEF FrameworkInv
  <1>5. CASE ManagerStep
    <2>1. active = "manager" /\ active' = active /\ Manager!Next /\ ManagerInv
      BY <1>5 DEF ManagerStep, FrameworkInv
    <2> QED
      BY <1>1, <2>1, ManagerPreserves DEF FrameworkInv
  <1>6. CASE MetaStep
    <2>1. active = "metaData" /\ active' = active /\ Meta!Next /\ MetaInv
      BY <1>6 DEF MetaStep, FrameworkInv
    <2> QED
      BY <1>1, <2>1, MetaPreserves DEF FrameworkInv
  <1>7. CASE LoaderStep
    <2>1. active = "loader" /\ active' = active /\ Loader!Next /\ LoaderInv
      BY <1>7 DEF LoaderStep, FrameworkInv
    <2> QED
      BY <1>1, <2>1, LoaderPreserves DEF FrameworkInv
  <1>8. CASE ListsStep
    <2>1. active = "lists" /\ active' = active /\ Lists!Next /\ ListsInv
      BY <1>8 DEF ListsStep, FrameworkInv
    <2> QED
      BY <1>1, <2>1, ListsPreserves DEF FrameworkInv
  <1>9. CASE BusStep
    <2>1. active = "busObject" /\ active' = active /\ Bus!Next /\ BusInv
      BY <1>9 DEF BusStep, FrameworkInv
    <2> QED
      BY <1>1, <2>1, BusPreserves DEF FrameworkInv
  <1>10. CASE ProxiesStep
    <2>1. active = "proxies" /\ active' = active /\ Proxies!Next /\ ProxiesInv
      BY <1>10 DEF ProxiesStep, FrameworkInv
    <2> QED
      BY <1>1, <2>1, ProxiesPreserves DEF FrameworkInv
  <1>11. CASE UNCHANGED frameworkVars
    <2>1. active' = active
      BY <1>11 DEF frameworkVars
    <2>2. (active = "dbus" => DBusInv') /\ (active = "metaData" => MetaInv')
      BY <1>11, DBusStutters, MetaStutters DEF frameworkVars, FrameworkInv
    <2>3. active = "file" => FileInv'
      <3>1. UNCHANGED File!vars
        BY <1>11 DEF frameworkVars, fileVars, File!vars, File!files, File!watcher
      <3> QED
        BY <3>1, FilePreserves DEF FrameworkInv
    <2>4. active = "manager" => ManagerInv'
      <3>1. UNCHANGED Manager!vars
        BY <1>11 DEF frameworkVars, managerVars, Manager!vars, Manager!stores
      <3> QED
        BY <3>1, ManagerPreserves DEF FrameworkInv
    <2>5. active = "loader" => LoaderInv'
      <3>1. UNCHANGED Loader!vars
        BY <1>11 DEF frameworkVars, loaderVars, Loader!vars, Loader!properties, Loader!objects,
           Loader!requests
      <3> QED
        BY <3>1, LoaderPreserves DEF FrameworkInv
    <2>6. active = "lists" => ListsInv'
      <3>1. UNCHANGED Lists!vars
        BY <1>11 DEF frameworkVars, listsVars, Lists!vars
      <3> QED
        BY <3>1, ListsPreserves DEF FrameworkInv
    <2>7. active = "busObject" => BusInv'
      <3>1. UNCHANGED Bus!vars
        BY <1>11 DEF frameworkVars, busVars, Bus!vars
      <3> QED
        BY <3>1, BusPreserves DEF FrameworkInv
    <2>8. active = "proxies" => ProxiesInv'
      <3>1. UNCHANGED Proxies!vars
        BY <1>11 DEF frameworkVars, proxiesVars, Proxies!vars
      <3> QED
        BY <3>1, ProxiesPreserves DEF FrameworkInv
    <2> QED
      BY <1>1, <2>1, <2>2, <2>3, <2>4, <2>5, <2>6, <2>7, <2>8 DEF FrameworkInv
  <1> QED
    BY <1>2, <1>3, <1>4, <1>5, <1>6, <1>7, <1>8, <1>9, <1>10, <1>11 DEF FrameworkNext

LEMMA FrameworkInvariance == FrameworkSpec => []FrameworkInv
BY FrameworkInitInv, FrameworkPreserves, PTL DEF FrameworkSpec

\* The variables of every part keep their types.
THEOREM FrameworkTypes == FrameworkSpec => []TypesOK
<1>1. FrameworkInv => TypesOK
  BY DEF FrameworkInv, TypesOK, IInv, DBusInv, FileInv, ManagerInv, MetaInv, LoaderInv, ListsInv,
         BusInv, ProxiesInv
<1> QED
  BY FrameworkInvariance, <1>1, PTL

\* A proxy is served as what it stands for: over D-Bus its object stays and is
\* counted, its calls and its service's signals arrive though the bus has fewer
\* types, and over a socket the numbers of methods agree, for any clients, objects
\* and methods.
THEOREM ProxiesServed == FrameworkSpec => []BoundServed
<1>1. FrameworkInv => BoundServed
  BY DBusServed DEF FrameworkInv, BoundServed, BusInv, ProxiesInv
<1> QED
  BY FrameworkInvariance, <1>1, PTL

\* What the watcher of the database and the QML elements show is what is stored,
\* unless the news is still under way.
THEOREM ShownCurrent == FrameworkSpec => []ShownIsCurrent
<1>1. FrameworkInv => ShownIsCurrent
  BY FileCurrent, LoaderShown DEF FrameworkInv, ShownIsCurrent, ListsInv
<1> QED
  BY FrameworkInvariance, <1>1, PTL

\* A plugin that is registered was told so, whatever the managers of a scope do in
\* between, and the interfaces of a document come once each with their latest
\* version known.
THEOREM RegisteredFit == FrameworkSpec => []RegisteredIsFit
<1>1. FrameworkInv => RegisteredIsFit
  BY DEF FrameworkInv, RegisteredIsFit, ManagerInv, MetaInv
<1> QED
  BY FrameworkInvariance, <1>1, PTL
=============================================================================
