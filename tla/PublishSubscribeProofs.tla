------------------------- MODULE PublishSubscribeProofs -------------------------
(***************************************************************************)
(* Proofs about QtPublishSubscribe: the value space over the GConf layer,  *)
(* for any subscribers, publishers, shared data and paths, and the lock    *)
(* processes share on Windows, for any finite number of threads.           *)
(*                                                                         *)
(* Of the value space three invariants are proved, each on top of the one  *)
(* before: the layer counts the handles that data and publishers hold      *)
(* (CountedIInv); the wires and counts of the slots of a subscriber agree  *)
(* with its slots, so that it is served (ServedIInv); and a change still   *)
(* to report is on its way (PendingIInv).  The last two need that no       *)
(* subscriber lies at the address of a dead one: the code keeps the counts *)
(* of connections by address and does not clear those of the dead.         *)
(*                                                                         *)
(* The counts in the shared memory of the lock determine where its threads *)
(* are, which makes both handovers and the implementation of the abstract  *)
(* lock follow (LockIInv).                                                 *)
(***************************************************************************)
EXTENDS ValueSpace, SystemReadWriteLock, FiniteSetTheorems, SequenceTheorems, TLAPS

(***************************************************************************)
(* The value space.                                                        *)
(***************************************************************************)
\* Data in use are those some subscriber points to; the others are as new.
DataShared ==
  \A d \in Data :
    /\ data[d].used <=> Sharers(d) # {}
    /\ ~data[d].used => data[d] = Unused
    /\ data[d].used => data[d].path \in Key
    /\ data[d].proxy => data[d].connected

ProxiesMonitored == \A d \in Data : data[d].proxy => data[d].path \in monitored

CountedIInv == TypeOK /\ DataShared /\ HandlesCounted /\ ProxiesMonitored

Holders(records, k) ==
  {d \in Data : records[d].used /\ records[d].connected /\ records[d].path = k}

LEMMA HoldersFinite ==
  ASSUME NEW records, NEW k
  PROVE  IsFiniteSet(Holders(records, k)) /\ Cardinality(Holders(records, k)) \in Nat
BY SpaceAssumption, FS_Subset, FS_CardinalityType, Holders(records, k) \in SUBSET Data DEF Holders

LEMMA UnusedIsRecord == Unused \in Record
BY DEF Unused, Record, NoCounts

\* Whoever data count is wired to their proxy, or died where it lies.
Wired(r) ==
  \A s \in Subscriber :
    /\ ~r.proxy => r.count[s] = 0
    /\ r.count[s] > 0 => s \in r.wired \cup r.haunted

\* What a disconnection leaves.
LEMMA DisconnectedRecord ==
  ASSUME NEW r \in Record, NEW s \in Subscriber
  PROVE  /\ Disconnected(r, s) \in Record
         /\ Disconnected(r, s).path = r.path /\ Disconnected(r, s).used = r.used
         /\ Disconnected(r, s).connected = r.connected /\ Disconnected(r, s).proxy = r.proxy
         /\ Disconnected(r, s).haunted \subseteq r.haunted
         /\ Disconnected(r, s).count[s] =
              IF r.proxy /\ r.count[s] > 0 THEN r.count[s] - 1 ELSE r.count[s]
         /\ \A t \in Subscriber \ {s} : Disconnected(r, s).count[t] = r.count[t]
         /\ Wired(r) => Wired(Disconnected(r, s))
<1>1. r.count \in [Subscriber -> Nat] /\ r.count[s] \in Nat
  BY DEF Record
<1>2. CASE ~r.proxy \/ r.count[s] = 0
  BY <1>1, <1>2 DEF Disconnected
<1>3. CASE r.proxy /\ r.count[s] # 0
  <2> DEFINE Without(set) == IF r.count[s] = 1 THEN set \ {s} ELSE set
             q == [r EXCEPT !.count = [r.count EXCEPT ![s] = r.count[s] - 1],
                            !.wired = Without(r.wired), !.haunted = Without(r.haunted)]
  <2>1. Disconnected(r, s) = q
    BY <1>3 DEF Disconnected
  <2>2. r.count[s] - 1 \in Nat /\ [r.count EXCEPT ![s] = r.count[s] - 1] \in [Subscriber -> Nat]
    BY <1>1, <1>3
  <2>3. Without(r.wired) \in SUBSET Subscriber /\ Without(r.haunted) \in SUBSET Subscriber
    BY DEF Record
  <2> HIDE DEF Without
  <2>4. q \in Record
    BY <2>2, <2>3 DEF Record
  <2>5. /\ q.path = r.path /\ q.used = r.used
        /\ q.connected = r.connected /\ q.proxy = r.proxy
        /\ q.count = [r.count EXCEPT ![s] = r.count[s] - 1]
        /\ q.wired = Without(r.wired) /\ q.haunted = Without(r.haunted)
    BY DEF Record
  <2> HIDE DEF q
  <2>6. q.count[s] = r.count[s] - 1 /\ \A t \in Subscriber \ {s} : q.count[t] = r.count[t]
    BY <1>1, <2>5
  <2>7. ASSUME Wired(r), NEW t \in Subscriber, q.count[t] > 0
        PROVE  t \in q.wired \cup q.haunted
    <3>1. r.count[t] > 0 /\ ~(t = s /\ r.count[s] = 1)
      BY <1>1, <1>3, <2>6, <2>7
    <3> QED
      BY <2>5, <2>7, <3>1 DEF Wired, Without
  <2>8. Wired(r) => Wired(q)
    BY <1>3, <2>5, <2>7 DEF Wired
  <2>9. q.haunted \subseteq r.haunted
    BY <2>5 DEF Without
  <2> QED
    BY <1>1, <1>3, <2>1, <2>2, <2>4, <2>5, <2>6, <2>8, <2>9
<1> QED
  BY <1>2, <1>3, <1>1

\* What a connection leaves.
LEMMA ConnectedRecord ==
  ASSUME NEW r \in Record, NEW s \in Subscriber
  PROVE  /\ ConnectedTo(r, s) \in Record
         /\ ConnectedTo(r, s).path = r.path /\ ConnectedTo(r, s).used = r.used
         /\ ConnectedTo(r, s).connected = r.connected /\ ConnectedTo(r, s).proxy
         /\ ConnectedTo(r, s).haunted = r.haunted
         /\ ConnectedTo(r, s).count[s] = r.count[s] + 1
         /\ \A t \in Subscriber \ {s} : ConnectedTo(r, s).count[t] = r.count[t]
         /\ Wired(r) => Wired(ConnectedTo(r, s))
<1> DEFINE more == IF r.count[s] = 0 THEN r.wired \cup {s} ELSE r.wired
           q == [r EXCEPT !.proxy = TRUE,
                          !.count = [r.count EXCEPT ![s] = r.count[s] + 1], !.wired = more]
<1>1. ConnectedTo(r, s) = q
  BY DEF ConnectedTo
<1>2. r.count \in [Subscriber -> Nat] /\ r.count[s] \in Nat
  BY DEF Record
<1>3. [r.count EXCEPT ![s] = r.count[s] + 1] \in [Subscriber -> Nat]
  BY <1>2
<1>4. more \in SUBSET Subscriber
  BY DEF Record
<1> HIDE DEF more
<1>5. q \in Record
  BY <1>3, <1>4 DEF Record
<1>6. /\ q.path = r.path /\ q.used = r.used
      /\ q.connected = r.connected /\ q.proxy = TRUE /\ q.haunted = r.haunted
      /\ q.count = [r.count EXCEPT ![s] = r.count[s] + 1] /\ q.wired = more
  BY DEF Record
<1> HIDE DEF q
<1>7. q.count[s] = r.count[s] + 1 /\ \A t \in Subscriber \ {s} : q.count[t] = r.count[t]
  BY <1>2, <1>6
<1>8. ASSUME Wired(r), NEW t \in Subscriber, q.count[t] > 0
      PROVE  t \in q.wired \cup q.haunted
  <2>1. CASE t = s /\ r.count[s] = 0
    BY <1>6, <2>1 DEF more
  <2>2. CASE ~(t = s /\ r.count[s] = 0)
    <3>1. r.count[t] > 0
      BY <1>2, <1>7, <1>8, <2>2
    <3> QED
      BY <1>6, <1>8, <3>1 DEF Wired, more
  <2> QED
    BY <2>1, <2>2
<1>9. Wired(r) => Wired(q)
  BY <1>6, <1>8 DEF Wired
<1> QED
  BY <1>1, <1>2, <1>5, <1>6, <1>7, <1>9

\* What an operation makes of the data and counts before a d pointer moves to new.
Repointable(new, records, refs) ==
  /\ new \in Data \cup {NoData} /\ records \in [Data -> Record] /\ refs \in [Key -> Nat]
  /\ \A d \in Data :
       /\ records[d].used <=> d = new \/ Sharers(d) # {}
       /\ ~records[d].used => records[d] = Unused
       /\ records[d].used => records[d].path \in Key
       /\ records[d].proxy => records[d].connected /\ records[d].path \in monitored
  /\ \A k \in Key : refs[k] = published[k] + Cardinality(Holders(records, k))

Repointed ==
  /\ subscriber' \in [Subscriber -> Data \cup {NoData}]
  /\ data' \in [Data -> Record] /\ delivery' \in [Data -> Nat]
  /\ refCount' \in [Key -> Nat] /\ monitored' \subseteq Key
  /\ DataShared' /\ HandlesCounted' /\ ProxiesMonitored'

\* A d pointer that moves takes the old data along exactly when nobody else holds
\* them, and with them their handle.
LEMMA RepointPreserves ==
  ASSUME TypeOK, NEW s \in Subscriber, NEW new, NEW records, NEW refs,
         Repointable(new, records, refs),
         Repoint(s, subscriber[s], new, records, refs), published' = published
  PROVE  Repointed
<1>0. /\ new \in Data \cup {NoData} /\ records \in [Data -> Record] /\ refs \in [Key -> Nat]
      /\ \A d \in Data :
           /\ records[d].used <=> d = new \/ Sharers(d) # {}
           /\ ~records[d].used => records[d] = Unused
           /\ records[d].used => records[d].path \in Key
           /\ records[d].proxy => records[d].connected /\ records[d].path \in monitored
      /\ \A k \in Key : refs[k] = published[k] + Cardinality(Holders(records, k))
  BY DEF Repointable
<1> USE <1>0
<1> DEFINE old == subscriber[s]
           last == LastSharer(s, old, new)
           p == records[old].path
<1>1. /\ subscriber \in [Subscriber -> Data \cup {NoData}]
      /\ delivery \in [Data -> Nat] /\ monitored \subseteq Key
      /\ published \in [Key -> Nat]
  BY DEF TypeOK
<1>2. /\ subscriber' = [subscriber EXCEPT ![s] = new]
      /\ data' = IF last THEN [records EXCEPT ![old] = Unused] ELSE records
      /\ delivery' = IF last THEN [delivery EXCEPT ![old] = 0] ELSE delivery
      /\ refCount' = IF last /\ records[old].connected
                       THEN [refs EXCEPT ![p] = refs[p] - 1] ELSE refs
      /\ monitored' = {k \in monitored : refCount'[k] > 0}
  BY DEF Repoint
<1>3. last => old \in Data /\ old # new /\ Sharers(old) = {s} /\ records[old].used
                /\ p \in Key
  <2> SUFFICES ASSUME last
               PROVE  old \in Data /\ old # new /\ Sharers(old) = {s} /\ records[old].used
                        /\ p \in Key
    OBVIOUS
  <2>1. old \in Data /\ old # new /\ Sharers(old) = {s}
    BY <1>1 DEF LastSharer
  <2>2. records[old].used
    BY <2>1
  <2> QED
    BY <2>1, <2>2
<1>4. subscriber' \in [Subscriber -> Data \cup {NoData}]
  BY <1>1, <1>2
<1>5. data' \in [Data -> Record]
  BY <1>2, <1>3, UnusedIsRecord
<1>6. delivery' \in [Data -> Nat]
  BY <1>1, <1>2, <1>3
<1>7. \A d \in Data : data'[d] = IF last /\ d = old THEN Unused ELSE records[d]
  BY <1>2, <1>3
<1>8. ~Unused.used /\ ~Unused.connected /\ ~Unused.proxy
  BY DEF Unused
<1>9. \A d \in Data : data'[d].used <=> Sharers(d)' # {}
  <2> SUFFICES ASSUME NEW d \in Data
               PROVE  data'[d].used <=> Sharers(d)' # {}
    OBVIOUS
  <2>1. \A t \in Subscriber : subscriber'[t] = IF t = s THEN new ELSE subscriber[t]
    BY <1>1, <1>2
  <2>2. CASE d = new
    <3>1. data'[d].used
      BY <1>3, <1>7, <2>2
    <3>2. s \in Sharers(d)'
      BY <2>1, <2>2 DEF Sharers
    <3> QED
      BY <3>1, <3>2
  <2>3. CASE d # new /\ d # old
    <3>1. Sharers(d)' = Sharers(d)
      BY <2>1, <2>3 DEF Sharers
    <3> QED
      BY <3>1, <1>7, <2>3
  <2>4. CASE d # new /\ d = old /\ last
    <3>1. Sharers(d)' = {}
      BY <2>1, <2>4, <1>3 DEF Sharers
    <3> QED
      BY <3>1, <1>7, <1>8, <2>4
  <2>5. CASE d # new /\ d = old /\ ~last
    <3>1. old # NoData
      BY <2>5, SpaceAssumption
    <3>2. Sharers(old) # {s} /\ s \in Sharers(old)
      BY <3>1, <2>5 DEF LastSharer, Sharers
    <3>3. PICK t \in Sharers(old) : t # s
      BY <3>2
    <3>4. t \in Sharers(d)'
      BY <3>3, <2>1, <2>5 DEF Sharers
    <3>5. records[d].used
      BY <3>2, <2>5
    <3> QED
      BY <3>4, <3>5, <1>7, <2>5
  <2> QED
    BY <2>2, <2>3, <2>4, <2>5
<1>10. DataShared'
  BY <1>7, <1>8, <1>9 DEF DataShared
<1>11. \A k \in Key : refCount'[k] = published[k] + Cardinality(Holders(data', k))
  <2> SUFFICES ASSUME NEW k \in Key
               PROVE  refCount'[k] = published[k] + Cardinality(Holders(data', k))
    OBVIOUS
  <2>1. CASE last /\ records[old].connected /\ p = k
    <3>1. Holders(data', k) = Holders(records, k) \ {old}
      BY <2>1, <1>7, <1>8 DEF Holders
    <3>2. old \in Holders(records, k)
      BY <2>1, <1>3 DEF Holders
    <3>3. Cardinality(Holders(data', k)) = Cardinality(Holders(records, k)) - 1
      <4>1. IsFiniteSet(Holders(records, k))
        BY HoldersFinite
      <4> DEFINE H == Holders(records, k)
                 e == old
      <4>2. IsFiniteSet(H) /\ e \in H /\ Holders(data', k) = H \ {e}
        BY <4>1, <3>1, <3>2
      <4> HIDE DEF H, e
      <4>3. Cardinality(H \ {e}) = Cardinality(H) - 1
        BY <4>2, FS_RemoveElement
      <4> QED
        BY <4>2, <4>3 DEF H
    <3>4. refCount'[k] = refs[k] - 1
      BY <2>1, <1>2, <1>3
    <3>5. refs[k] = published[k] + Cardinality(Holders(records, k))
      OBVIOUS
    <3>6. published[k] \in Nat /\ Cardinality(Holders(records, k)) \in Nat
      BY <1>1, HoldersFinite
    <3> HIDE DEF p, last
    <3> QED
      BY <3>3, <3>4, <3>5, <3>6
  <2>2. CASE ~(last /\ records[old].connected /\ p = k)
    <3>1. Holders(data', k) = Holders(records, k)
      BY <2>2, <1>7, <1>8 DEF Holders
    <3>2. refCount'[k] = refs[k]
      BY <2>2, <1>2, <1>3
    <3> QED
      BY <3>1, <3>2
  <2> QED
    BY <2>1, <2>2
<1>12. HandlesCounted'
  BY <1>11 DEF HandlesCounted, Holders
<1>13. refCount' \in [Key -> Nat]
  <2>1. \A k \in Key : refCount'[k] \in Nat
    BY <1>11, <1>1, HoldersFinite
  <2>2. DOMAIN refCount' = Key
    BY <1>2
  <2>3. refCount' = [k \in Key |-> refCount'[k]]
    BY <1>2, <2>2
  <2> QED
    BY <2>1, <2>3
<1>14. ProxiesMonitored'
  <2> SUFFICES ASSUME NEW d \in Data, data'[d].proxy
               PROVE  data'[d].path \in monitored'
    BY DEF ProxiesMonitored
  <2>1. data'[d] = records[d] /\ records[d].used /\ records[d].connected
        /\ records[d].path \in monitored /\ records[d].path \in Key
    BY <1>7, <1>8
  <2> DEFINE k == records[d].path
  <2>2. d \in Holders(data', k)
    BY <2>1 DEF Holders
  <2>3. Cardinality(Holders(data', k)) > 0
    BY <2>2, HoldersFinite, FS_EmptySet
  <2>4. refCount'[k] > 0
    <3>1. published[k] \in Nat /\ Cardinality(Holders(data', k)) \in Nat
      BY <1>1, <2>1, HoldersFinite
    <3>2. refCount'[k] = published[k] + Cardinality(Holders(data', k))
      BY <1>11, <2>1
    <3> HIDE DEF k
    <3> QED
      BY <3>1, <3>2, <2>3
  <2> QED
    BY <2>1, <2>4, <1>2
<1> QED
  BY <1>1, <1>2, <1>4, <1>5, <1>6, <1>10, <1>12, <1>13, <1>14 DEF Repointed

\* The subscriber loses its wire to the proxy of some data.
LEMMA UnwiredRecord ==
  ASSUME NEW r \in Record, NEW s \in Subscriber
  PROVE  /\ Unwired(r, s) \in Record
         /\ Unwired(r, s).path = r.path /\ Unwired(r, s).used = r.used
         /\ Unwired(r, s).connected = r.connected /\ Unwired(r, s).proxy = r.proxy
         /\ Unwired(r, s).count = r.count
         /\ Unwired(r, s).haunted \subseteq r.haunted \cup {s}
         /\ Wired(r) => Wired(Unwired(r, s))
<1> DEFINE dead == IF r.count[s] > 0 THEN r.haunted \cup {s} ELSE r.haunted
           q == [r EXCEPT !.wired = r.wired \ {s}, !.haunted = dead]
<1>1. Unwired(r, s) = q
  BY DEF Unwired
<1>2. dead \in SUBSET Subscriber /\ r.wired \ {s} \in SUBSET Subscriber
  BY DEF Record
<1> HIDE DEF dead
<1>3. q \in Record
  BY <1>2 DEF Record
<1>4. /\ q.path = r.path /\ q.used = r.used /\ q.connected = r.connected /\ q.proxy = r.proxy
      /\ q.count = r.count /\ q.wired = r.wired \ {s} /\ q.haunted = dead
  BY DEF Record
<1> HIDE DEF q
<1>5. Wired(r) => Wired(q)
  BY <1>4 DEF Wired, dead
<1> QED
  BY <1>1, <1>3, <1>4, <1>5 DEF dead

LEMMA NewDataRecord ==
  ASSUME NEW d \in Data, NEW path \in Key, NEW filter
  PROVE  /\ NewData(d, path, filter) \in Record
         /\ NewData(d, path, filter).path = path /\ NewData(d, path, filter).used
         /\ (NewData(d, path, filter).connected <=> SubscriberMatches(filter))
         /\ ~NewData(d, path, filter).proxy /\ NewData(d, path, filter).count = NoCounts
<1> DEFINE m == SubscriberMatches(filter)
<1>1. m \in BOOLEAN
  BY DEF SubscriberMatches
<1>2. NewData(d, path, filter) = [Unused EXCEPT !.path = path, !.used = TRUE, !.connected = m]
  BY DEF NewData
<1> HIDE DEF m
<1>3. NewData(d, path, filter) =
        [path |-> path, used |-> TRUE, connected |-> m,
         proxy |-> FALSE, count |-> NoCounts, wired |-> {}, haunted |-> {}]
  BY <1>2 DEF Unused
<1>4. NoCounts \in [Subscriber -> Nat]
  BY DEF NoCounts
<1>5. NewData(d, path, filter) \in Record
  BY <1>1, <1>3, <1>4 DEF Record
<1>6. /\ NewData(d, path, filter).path = path /\ NewData(d, path, filter).used
      /\ NewData(d, path, filter).connected = m
      /\ ~NewData(d, path, filter).proxy /\ NewData(d, path, filter).count = NoCounts
  BY <1>3
<1>7. NewData(d, path, filter).connected <=> m
  BY <1>1, <1>6
<1> QED
  BY <1>5, <1>6, <1>7 DEF m

\* Data that hold what they held before leave the counts right.
LEMMA SameHolders ==
  ASSUME HandlesCounted, NEW records,
         \A d \in Data : /\ records[d].used = data[d].used
                         /\ records[d].connected = data[d].connected
                         /\ records[d].path = data[d].path
  PROVE  \A k \in Key : refCount[k] = published[k] + Cardinality(Holders(records, k))
<1>1. \A k \in Key : Holders(records, k)
                       = {d \in Data : data[d].used /\ data[d].connected /\ data[d].path = k}
  BY DEF Holders
<1> QED
  BY <1>1 DEF HandlesCounted

\* New data that match the layer hold one more handle of their path.
LEMMA TakenCounted ==
  ASSUME TypeOK, HandlesCounted, NEW d \in Data, ~data[d].used,
         NEW path \in Key, NEW filter, NEW records,
         records[d] = NewData(d, path, filter),
         \A e \in Data \ {d} : /\ records[e].used = data[e].used
                               /\ records[e].connected = data[e].connected
                               /\ records[e].path = data[e].path
  PROVE  /\ Taken(path, filter) \in [Key -> Nat]
         /\ \A k \in Key :
              Taken(path, filter)[k] = published[k] + Cardinality(Holders(records, k))
<1>1. refCount \in [Key -> Nat] /\ published \in [Key -> Nat]
  BY DEF TypeOK
<1>2. \A k \in Key : refCount[k] = published[k] + Cardinality(Holders(data, k))
  BY DEF HandlesCounted, Holders
<1>0. /\ records[d].path = path /\ records[d].used
      /\ (records[d].connected <=> SubscriberMatches(filter))
  <2>1. /\ NewData(d, path, filter).path = path /\ NewData(d, path, filter).used
        /\ (NewData(d, path, filter).connected <=> SubscriberMatches(filter))
    BY NewDataRecord
  <2> QED
    BY <2>1
<1>3. CASE SubscriberMatches(filter)
  <2>1. Taken(path, filter) = [refCount EXCEPT ![path] = refCount[path] + 1]
    BY <1>3 DEF Taken
  <2>2. Taken(path, filter) \in [Key -> Nat]
    BY <1>1, <2>1
  <2>3. ASSUME NEW k \in Key
        PROVE  Taken(path, filter)[k] = published[k] + Cardinality(Holders(records, k))
    <3>1. refCount[k] = published[k] + Cardinality(Holders(data, k))
          /\ published[k] \in Nat /\ Cardinality(Holders(data, k)) \in Nat
      BY <1>1, <1>2, HoldersFinite
    <3>2. CASE k = path
      <4>1. Holders(records, k) = Holders(data, k) \cup {d}
        BY <1>0, <1>3, <3>2 DEF Holders
      <4>2. d \notin Holders(data, k) /\ IsFiniteSet(Holders(data, k))
        BY HoldersFinite DEF Holders
      <4>3. Cardinality(Holders(records, k)) = Cardinality(Holders(data, k)) + 1
        <5> DEFINE H == Holders(data, k)
        <5>1. IsFiniteSet(H) /\ d \notin H /\ Holders(records, k) = H \cup {d}
          BY <4>1, <4>2
        <5> HIDE DEF H
        <5>2. Cardinality(H \cup {d}) = Cardinality(H) + 1
          BY <5>1, FS_AddElement
        <5> QED
          BY <5>1, <5>2 DEF H
      <4>4. Taken(path, filter)[k] = refCount[k] + 1
        BY <1>1, <2>1, <3>2
      <4> QED
        BY <3>1, <4>3, <4>4
    <3>3. CASE k # path
      <4>1. Holders(records, k) = Holders(data, k)
        BY <1>0, <3>3 DEF Holders
      <4>2. Taken(path, filter)[k] = refCount[k]
        BY <1>1, <2>1, <3>3
      <4> QED
        BY <3>1, <4>1, <4>2
    <3> QED
      BY <3>2, <3>3
  <2> QED
    BY <2>2, <2>3
<1>4. CASE ~SubscriberMatches(filter)
  <2>1. Taken(path, filter) = refCount
    BY <1>4 DEF Taken
  <2>2. \A k \in Key : Holders(records, k) = Holders(data, k)
    BY <1>0, <1>4 DEF Holders
  <2> QED
    BY <1>1, <1>2, <2>1, <2>2
<1> QED
  BY <1>3, <1>4

LEMMA SubscribePreserves ==
  ASSUME CountedIInv, NEW s \in Subscriber, NEW argument, NEW filter,
         Subscribe(s, argument, filter)
  PROVE  CountedIInv'
<1> DEFINE path == Canonical(argument)
<1>1. TypeOK /\ DataShared /\ HandlesCounted /\ ProxiesMonitored
  BY DEF CountedIInv
<1>2. subscriber[s] = NoData
  BY DEF Subscribe, Live
<1>3. PICK d \in Data :
        /\ ~data[d].used /\ path \in Key
        /\ Repoint(s, NoData, d, [data EXCEPT ![d] = NewData(d, path, filter)],
                   Taken(path, filter))
  BY DEF Subscribe
<1> HIDE DEF path
<1> DEFINE records == [data EXCEPT ![d] = NewData(d, path, filter)]
<1>4. data \in [Data -> Record]
  BY <1>1 DEF TypeOK
<1>5. records \in [Data -> Record]
  BY <1>3, <1>4, NewDataRecord
<1>6. records[d] = NewData(d, path, filter) /\ \A e \in Data \ {d} : records[e] = data[e]
  BY <1>4
<1>7. published' = published
  BY DEF Subscribe, publishers
<1> HIDE DEF records
<1>8. /\ Taken(path, filter) \in [Key -> Nat]
      /\ \A k \in Key :
           Taken(path, filter)[k] = published[k] + Cardinality(Holders(records, k))
  BY <1>1, <1>3, <1>6, TakenCounted
<1>0. /\ records[d].path = path /\ records[d].used /\ ~records[d].proxy
  <2>1. /\ NewData(d, path, filter).path = path /\ NewData(d, path, filter).used
        /\ ~NewData(d, path, filter).proxy
    <3>1. d \in Data /\ path \in Key
      BY <1>3
    <3> QED
      BY <3>1, NewDataRecord
  <2> QED
    BY <2>1, <1>6
<1>9. \A e \in Data :
        /\ records[e].used <=> e = d \/ Sharers(e) # {}
        /\ ~records[e].used => records[e] = Unused
        /\ records[e].used => records[e].path \in Key
        /\ records[e].proxy => records[e].connected /\ records[e].path \in monitored
  BY <1>0, <1>1, <1>3, <1>6 DEF DataShared, ProxiesMonitored
<1>10. Repoint(s, subscriber[s], d, records, Taken(path, filter))
  BY <1>2, <1>3 DEF records
<1>11. Repointed
  <2>1. Repointable(d, records, Taken(path, filter))
    BY <1>1, <1>5, <1>7, <1>8, <1>9, <1>10 DEF Repointable
  <2> QED
    BY <2>1, RepointPreserves, <1>1, <1>5, <1>7, <1>8, <1>9, <1>10
<1>12. UNCHANGED <<store, slots, publisher, published, notification, visit, owed>>
  BY DEF Subscribe, publishers, notifying
<1> QED
  BY <1>1, <1>11, <1>12 DEF CountedIInv, TypeOK, Repointed

LEMMA UnsubscribePreserves ==
  ASSUME CountedIInv, NEW s \in Subscriber, Unsubscribe(s)
  PROVE  CountedIInv'
<1> DEFINE old == subscriber[s]
           left == IF Connected(s) THEN [data EXCEPT ![old] = Disconnected(@, s)] ELSE data
           records == [d \in Data |-> Unwired(left[d], s)]
<1>1. TypeOK /\ DataShared /\ HandlesCounted /\ ProxiesMonitored
  BY DEF CountedIInv
<1>2. /\ data \in [Data -> Record] /\ refCount \in [Key -> Nat]
      /\ slots \in [Subscriber -> 0 .. MaxSlots] /\ owed \subseteq Subscriber
      /\ old \in Data
  BY <1>1 DEF TypeOK, Unsubscribe, Live
<1>3. left \in [Data -> Record]
  BY <1>2, DisconnectedRecord
<1>4. \A d \in Data : /\ left[d].used = data[d].used /\ left[d].connected = data[d].connected
                      /\ left[d].path = data[d].path /\ left[d].proxy = data[d].proxy
  BY <1>2, DisconnectedRecord
<1>5. Repoint(s, subscriber[s], NoData, records, refCount)
  BY DEF Unsubscribe
<1> HIDE DEF left
<1>6. records \in [Data -> Record]
  BY <1>3, UnwiredRecord
<1>7. \A d \in Data :
        /\ records[d].used = data[d].used /\ records[d].connected = data[d].connected
        /\ records[d].path = data[d].path /\ records[d].proxy = data[d].proxy
  <2> SUFFICES ASSUME NEW d \in Data
               PROVE  /\ records[d].used = data[d].used
                      /\ records[d].connected = data[d].connected
                      /\ records[d].path = data[d].path /\ records[d].proxy = data[d].proxy
    OBVIOUS
  <2>1. left[d] \in Record /\ records[d] = Unwired(left[d], s)
    BY <1>3
  <2> HIDE DEF records
  <2> QED
    BY <1>4, <2>1, UnwiredRecord
<1>8. \A d \in Data : ~records[d].used => records[d] = Unused
  <2> SUFFICES ASSUME NEW d \in Data, ~records[d].used
               PROVE  records[d] = Unused
    OBVIOUS
  <2>1. data[d] = Unused /\ Sharers(d) = {}
    BY <1>1, <1>7 DEF DataShared
  <2>2. d # old
    BY <2>1 DEF Sharers
  <2>3. left[d] = Unused
    BY <2>1, <2>2, <1>2 DEF left
  <2>4. records[d] = Unwired(Unused, s)
    BY <2>3
  <2>5. ~(Unused.count[s] > 0) /\ Unused.wired \ {s} = Unused.wired
    BY DEF Unused, NoCounts
  <2> DEFINE wired == Unused.wired \ {s}
             haunted == IF Unused.count[s] > 0 THEN Unused.haunted \cup {s} ELSE Unused.haunted
  <2>6. wired = {} /\ haunted = {}
    BY <2>5 DEF Unused
  <2>7. Unwired(Unused, s) = [Unused EXCEPT !.wired = wired, !.haunted = haunted]
    BY DEF Unwired
  <2> HIDE DEF wired, haunted
  <2>8. Unwired(Unused, s) = Unused
    BY <2>6, <2>7 DEF Unused
  <2> HIDE DEF records
  <2> QED
    BY <2>4, <2>8
<1>9. UNCHANGED <<store, publisher, published, notification, visit>>
      /\ slots' = [slots EXCEPT ![s] = 0] /\ owed' = owed \ {s}
  BY DEF Unsubscribe, publishers, notifying
<1> HIDE DEF records, old
<1>10. \A k \in Key : refCount[k] = published[k] + Cardinality(Holders(records, k))
  BY <1>1, <1>7, SameHolders
<1>11. \A e \in Data :
         /\ records[e].used <=> e = NoData \/ Sharers(e) # {}
         /\ ~records[e].used => records[e] = Unused
         /\ records[e].used => records[e].path \in Key
         /\ records[e].proxy => records[e].connected /\ records[e].path \in monitored
  BY <1>1, <1>7, <1>8, SpaceAssumption DEF DataShared, ProxiesMonitored
<1>12. Repointed
  <2>1. Repointable(NoData, records, refCount)
    BY <1>1, <1>2, <1>6, <1>9, <1>10, <1>11, <1>5 DEF Repointable
  <2> QED
    BY <2>1, RepointPreserves, <1>1, <1>2, <1>6, <1>9, <1>10, <1>11, <1>5
<1>13. slots' \in [Subscriber -> 0 .. MaxSlots] /\ owed' \subseteq Subscriber
  BY <1>2, <1>9, SpaceAssumption
<1> QED
  BY <1>1, <1>9, <1>12, <1>13 DEF CountedIInv, TypeOK, Repointed

\* What setPath and its overload leave to be moved.
LEMMA MovedTypes ==
  ASSUME TypeOK, NEW s \in Subscriber, Moved(s)
  PROVE  /\ slots' \in [Subscriber -> 0 .. MaxSlots] /\ owed' \subseteq Subscriber
         /\ UNCHANGED <<store, publisher, published, notification, visit>>
BY SpaceAssumption DEF TypeOK, Moved, publishers, notifying

LEMMA SetPathPreserves ==
  ASSUME CountedIInv, NEW s \in Subscriber, NEW argument, SetPath(s, argument)
  PROVE  CountedIInv'
<1> DEFINE path == Canonical(argument)
           old == subscriber[s]
<1>1. TypeOK /\ DataShared /\ HandlesCounted /\ ProxiesMonitored
  BY DEF CountedIInv
<1>2. PICK d \in Data :
        /\ ~data[d].used /\ path \in Key
        /\ Repoint(s, old, d,
                   [data EXCEPT ![old] = Disconnected(@, s), ![d] = NewData(d, path, {})],
                   Taken(path, {}))
  BY DEF SetPath
<1> DEFINE records == [data EXCEPT ![old] = Disconnected(@, s), ![d] = NewData(d, path, {})]
<1> HIDE DEF path
<1>3. data \in [Data -> Record] /\ old \in Data
  BY <1>1 DEF TypeOK, SetPath, Connected, Live
<1>4. data[old].used /\ d # old
  BY <1>1, <1>2, <1>3 DEF DataShared, Sharers
<1>5. records \in [Data -> Record]
  BY <1>2, <1>3, <1>4, NewDataRecord, DisconnectedRecord
<1>6. /\ records[d] = NewData(d, path, {})
      /\ \A e \in Data \ {d} :
           /\ records[e].used = data[e].used /\ records[e].connected = data[e].connected
           /\ records[e].path = data[e].path /\ records[e].proxy = data[e].proxy
           /\ e # old => records[e] = data[e]
  BY <1>3, <1>4, DisconnectedRecord
<1>7. Moved(s) /\ published' = published
  BY DEF SetPath, Moved, publishers
<1>8. Repoint(s, subscriber[s], d, records, Taken(path, {}))
  BY <1>2
<1> HIDE DEF records, old
<1>9. /\ Taken(path, {}) \in [Key -> Nat]
      /\ \A k \in Key :
           Taken(path, {})[k] = published[k] + Cardinality(Holders(records, k))
  BY <1>1, <1>2, <1>6, TakenCounted
<1>0. /\ records[d].path = path /\ records[d].used /\ ~records[d].proxy
  <2>1. /\ NewData(d, path, {}).path = path /\ NewData(d, path, {}).used
        /\ ~NewData(d, path, {}).proxy
    <3>1. d \in Data /\ path \in Key
      BY <1>2
    <3> QED
      BY <3>1, NewDataRecord
  <2> QED
    BY <2>1, <1>6
<1>10. \A e \in Data :
        /\ records[e].used <=> e = d \/ Sharers(e) # {}
        /\ ~records[e].used => records[e] = Unused
        /\ records[e].used => records[e].path \in Key
        /\ records[e].proxy => records[e].connected /\ records[e].path \in monitored
  BY <1>0, <1>1, <1>2, <1>4, <1>6 DEF DataShared, ProxiesMonitored
<1>11. Repointed
  <2>1. Repointable(d, records, Taken(path, {}))
    BY <1>1, <1>5, <1>7, <1>8, <1>9, <1>10 DEF Repointable
  <2> QED
    BY <2>1, RepointPreserves, <1>1, <1>5, <1>7, <1>8, <1>9, <1>10
<1> QED
  BY <1>1, <1>7, <1>11, MovedTypes DEF CountedIInv, TypeOK, Repointed

LEMMA SetPathOfPreserves ==
  ASSUME CountedIInv, NEW s \in Subscriber, NEW t \in Subscriber, SetPathOf(s, t)
  PROVE  CountedIInv'
<1> DEFINE old == subscriber[s]
           new == subscriber[t]
           records == [data EXCEPT ![old] = Disconnected(@, s)]
<1>1. TypeOK /\ DataShared /\ HandlesCounted /\ ProxiesMonitored
  BY DEF CountedIInv
<1>2. Repoint(s, subscriber[s], new, records, refCount) /\ Moved(s)
  BY DEF SetPathOf
<1>3. /\ data \in [Data -> Record] /\ old \in Data /\ new \in Data
      /\ refCount \in [Key -> Nat]
  BY <1>1 DEF TypeOK, SetPathOf, Connected, Live
<1>4. records \in [Data -> Record]
  BY <1>3, DisconnectedRecord
<1>5. \A e \in Data :
        /\ records[e].used = data[e].used /\ records[e].connected = data[e].connected
        /\ records[e].path = data[e].path /\ records[e].proxy = data[e].proxy
        /\ e # old => records[e] = data[e]
  BY <1>3, DisconnectedRecord
<1>6. Sharers(old) # {} /\ Sharers(new) # {}
  BY DEF Sharers
<1>7. published' = published
  BY <1>2 DEF Moved, publishers
<1> HIDE DEF records, old, new
<1>8. \A k \in Key : refCount[k] = published[k] + Cardinality(Holders(records, k))
  BY <1>1, <1>5, SameHolders
<1>9. \A e \in Data :
        /\ records[e].used <=> e = new \/ Sharers(e) # {}
        /\ ~records[e].used => records[e] = Unused
        /\ records[e].used => records[e].path \in Key
        /\ records[e].proxy => records[e].connected /\ records[e].path \in monitored
  BY <1>1, <1>5, <1>6 DEF DataShared, ProxiesMonitored
<1>10. Repointed
  <2>1. Repointable(new, records, refCount)
    BY <1>1, <1>2, <1>3, <1>4, <1>7, <1>8, <1>9 DEF Repointable
  <2> QED
    BY <2>1, RepointPreserves, <1>1, <1>2, <1>3, <1>4, <1>7, <1>8, <1>9
<1> QED
  BY <1>1, <1>2, <1>10, MovedTypes DEF CountedIInv, TypeOK, Repointed

\* A step that only connects and disconnects leaves what is shared and counted.
LEMMA RecordsChanged ==
  ASSUME CountedIInv, UNCHANGED <<subscriber, refCount, published>>,
         \A d \in Data :
           /\ data'[d].used = data[d].used /\ data'[d].connected = data[d].connected
           /\ data'[d].path = data[d].path
           /\ ~data[d].used => data'[d] = data[d]
           /\ data'[d].proxy => data[d].connected /\ data[d].path \in monitored'
  PROVE  DataShared' /\ HandlesCounted' /\ ProxiesMonitored'
<1>1. DataShared' /\ ProxiesMonitored'
  BY DEF CountedIInv, DataShared, ProxiesMonitored, Sharers
<1>2. \A k \in Key : refCount[k] = published[k] + Cardinality(Holders(data', k))
  BY SameHolders DEF CountedIInv
<1>3. HandlesCounted'
  BY <1>2 DEF HandlesCounted, Holders
<1> QED
  BY <1>1, <1>3

LEMMA ConnectSlotPreserves ==
  ASSUME CountedIInv, NEW s \in Subscriber, ConnectSlot(s)
  PROVE  CountedIInv'
<1> DEFINE d == subscriber[s]
<1>1. /\ data \in [Data -> Record] /\ d \in Data /\ monitored \subseteq Key
      /\ slots \in [Subscriber -> 0 .. MaxSlots] /\ data[d].used /\ data[d].path \in Key
  BY DEF CountedIInv, DataShared, Sharers, TypeOK, ConnectSlot, Live
<1>2. /\ UNCHANGED <<subscriber, refCount, published>>
      /\ UNCHANGED <<store, delivery, publisher, notification, visit, owed>>
  BY DEF ConnectSlot, publishers, notifying
<1>3. slots' \in [Subscriber -> 0 .. MaxSlots]
  BY <1>1, SpaceAssumption DEF ConnectSlot
<1>4. CASE Connected(s)
  <2>1. data' = [data EXCEPT ![d] = ConnectedTo(@, s)] /\ Monitor(d)
    BY <1>4 DEF ConnectSlot
  <2>2. data[d].connected
    BY <1>4 DEF Connected
  <2>3. /\ monitored' = IF data[d].proxy THEN monitored ELSE monitored \cup {data[d].path}
        /\ data[d].path \in monitored' /\ monitored \subseteq monitored' /\ monitored' \subseteq Key
    BY <1>1, <2>1 DEF Monitor, CountedIInv, ProxiesMonitored
  <2>4. data' \in [Data -> Record]
    BY <1>1, <2>1, ConnectedRecord
  <2>5. \A e \in Data :
          /\ data'[e].used = data[e].used /\ data'[e].connected = data[e].connected
          /\ data'[e].path = data[e].path
          /\ ~data[e].used => data'[e] = data[e]
          /\ data'[e].proxy => data[e].connected /\ data[e].path \in monitored'
    BY <1>1, <2>1, <2>2, <2>3, ConnectedRecord DEF CountedIInv, DataShared, ProxiesMonitored
  <2>6. DataShared' /\ HandlesCounted' /\ ProxiesMonitored'
    BY <1>2, <2>5, RecordsChanged
  <2> QED
    BY <1>2, <1>3, <2>3, <2>4, <2>6 DEF CountedIInv, TypeOK
<1>5. CASE ~Connected(s)
  <2>1. UNCHANGED <<data, monitored>>
    BY <1>5 DEF ConnectSlot
  <2>2. DataShared' /\ HandlesCounted' /\ ProxiesMonitored'
    BY <1>2, <2>1 DEF CountedIInv, DataShared, Sharers, HandlesCounted, ProxiesMonitored
  <2> QED
    BY <1>2, <1>3, <2>1, <2>2 DEF CountedIInv, TypeOK
<1> QED
  BY <1>4, <1>5

LEMMA ReadPropertyPreserves ==
  ASSUME CountedIInv, NEW s \in Subscriber, ReadProperty(s)
  PROVE  CountedIInv'
<1> DEFINE d == subscriber[s]
<1>1. /\ data \in [Data -> Record] /\ d \in Data /\ monitored \subseteq Key
      /\ data[d].used /\ data[d].path \in Key /\ data[d].connected
  BY DEF CountedIInv, DataShared, Sharers, TypeOK, ReadProperty, Connected, Live
<1>2. /\ UNCHANGED <<subscriber, refCount, published>>
      /\ UNCHANGED <<store, slots, delivery, publisher, notification, visit, owed>>
  BY DEF ReadProperty, publishers, notifying
<1>3. data' = [data EXCEPT ![d] = ConnectedTo(@, s)] /\ Monitor(d)
  BY DEF ReadProperty
<1>4. /\ monitored' = IF data[d].proxy THEN monitored ELSE monitored \cup {data[d].path}
      /\ data[d].path \in monitored' /\ monitored \subseteq monitored' /\ monitored' \subseteq Key
  BY <1>1, <1>3 DEF Monitor, CountedIInv, ProxiesMonitored
<1>5. data' \in [Data -> Record]
  BY <1>1, <1>3, ConnectedRecord
<1>6. \A e \in Data :
        /\ data'[e].used = data[e].used /\ data'[e].connected = data[e].connected
        /\ data'[e].path = data[e].path
        /\ ~data[e].used => data'[e] = data[e]
        /\ data'[e].proxy => data[e].connected /\ data[e].path \in monitored'
  BY <1>1, <1>3, <1>4, ConnectedRecord DEF CountedIInv, DataShared, ProxiesMonitored
<1>7. DataShared' /\ HandlesCounted' /\ ProxiesMonitored'
  BY <1>2, <1>6, RecordsChanged
<1> QED
  BY <1>2, <1>4, <1>5, <1>7 DEF CountedIInv, TypeOK

LEMMA DisconnectSlotPreserves ==
  ASSUME CountedIInv, NEW s \in Subscriber, DisconnectSlot(s)
  PROVE  CountedIInv'
<1> DEFINE d == subscriber[s]
<1>1. /\ data \in [Data -> Record] /\ slots \in [Subscriber -> 0 .. MaxSlots]
      /\ d \in Data \cup {NoData} /\ owed \subseteq Subscriber
  BY DEF CountedIInv, TypeOK
<1>2. /\ UNCHANGED <<subscriber, refCount, published>>
      /\ UNCHANGED <<store, delivery, monitored, publisher, notification, visit>>
  BY DEF DisconnectSlot, publishers, notifying, layer
<1>3. slots' \in [Subscriber -> 0 .. MaxSlots] /\ owed' \subseteq Subscriber
  BY <1>1, SpaceAssumption DEF DisconnectSlot
<1>4. CASE Connected(s)
  <2>1. d \in Data /\ data' = [data EXCEPT ![d] = Disconnected(@, s)]
    BY <1>1, <1>4 DEF DisconnectSlot, Connected, Live
  <2>2. data[d].used
    BY <2>1 DEF CountedIInv, DataShared, Sharers
  <2>3. data' \in [Data -> Record]
    BY <1>1, <2>1, DisconnectedRecord
  <2>4. \A e \in Data :
          /\ data'[e].used = data[e].used /\ data'[e].connected = data[e].connected
          /\ data'[e].path = data[e].path /\ data'[e].proxy = data[e].proxy
          /\ ~data[e].used => data'[e] = data[e]
    BY <1>1, <2>1, <2>2, DisconnectedRecord
  <2>5. \A e \in Data : data'[e].proxy => data[e].connected /\ data[e].path \in monitored'
    BY <1>2, <2>4 DEF CountedIInv, DataShared, ProxiesMonitored
  <2>6. DataShared' /\ HandlesCounted' /\ ProxiesMonitored'
    BY <1>2, <2>4, <2>5, RecordsChanged
  <2> QED
    BY <1>2, <1>3, <2>3, <2>6 DEF CountedIInv, TypeOK
<1>5. CASE ~Connected(s)
  <2>1. data' = data
    BY <1>5 DEF DisconnectSlot
  <2>2. DataShared' /\ HandlesCounted' /\ ProxiesMonitored'
    BY <1>2, <2>1 DEF CountedIInv, DataShared, Sharers, HandlesCounted, ProxiesMonitored
  <2> QED
    BY <1>2, <1>3, <2>1, <2>2 DEF CountedIInv, TypeOK
<1> QED
  BY <1>4, <1>5

\* What the store becomes is what it may hold.
LEMMA StorePreserves ==
  ASSUME CountedIInv, NEW contents, Store(contents),
         contents \in [Key -> Value \cup {Unset} \cup {[kind |-> "String", content |-> v] : v \in Value}]
  PROVE  CountedIInv'
<1> DEFINE changed == {k \in Key : contents[k] # store[k]}
<1>1. store' = contents
  BY DEF Store
<1>2. PICK order \in SetToSeqs(changed) : notification' = notification \o order
  BY DEF Store
<1>3. order \in Seq(Key)
  <2>1. IsFiniteSet(changed) /\ Cardinality(changed) \in Nat
    BY SpaceAssumption, FS_Subset, FS_CardinalityType, changed \in SUBSET Key
  <2>2. order \in [1 .. Cardinality(changed) -> changed]
    BY DEF SetToSeqs
  <2> DEFINE n == Cardinality(changed)
  <2>3. order \in [1 .. n -> Key] /\ n \in Nat
    BY <2>1, <2>2
  <2> HIDE DEF n
  <2> QED
    BY <2>3, SeqDef
<1>4. notification' \in Seq(Key)
  BY <1>2, <1>3 DEF CountedIInv, TypeOK
<1>5. owed' \subseteq Subscriber
  BY DEF Store, CountedIInv, TypeOK
<1>6. UNCHANGED <<subscriber, slots, data, delivery, refCount, monitored, publisher, published,
                  visit>>
  BY DEF Store, application, layer, publishers
<1>7. DataShared' /\ HandlesCounted' /\ ProxiesMonitored'
  BY <1>6 DEF CountedIInv, DataShared, Sharers, HandlesCounted, ProxiesMonitored
<1> QED
  BY <1>1, <1>4, <1>5, <1>6, <1>7 DEF CountedIInv, TypeOK

LEMMA StoredType ==
  ASSUME NEW value \in Value
  PROVE  Stored(value) \in Value \cup {Unset} \cup {[kind |-> "String", content |-> v] : v \in Value}
<1>1. CASE value.kind \in {"Invalid", "MixedList"}
  BY <1>1 DEF Stored
<1>2. CASE value.kind \notin {"Invalid", "MixedList"} /\ value.kind \in Native
  BY <1>2 DEF Stored
<1>3. CASE value.kind \notin {"Invalid", "MixedList"} /\ value.kind \notin Native
  BY <1>3 DEF Stored
<1> QED
  BY <1>1, <1>2, <1>3

LEMMA PublishPreserves ==
  ASSUME CountedIInv, NEW p \in Publisher, NEW argument, NEW filter,
         Publish(p, argument, filter)
  PROVE  CountedIInv'
<1> DEFINE path == Canonical(argument)
<1>1. /\ path \in Key
      /\ publisher' = [publisher EXCEPT ![p] = path]
      /\ published' = [published EXCEPT ![path] = @ + 1]
      /\ refCount' = [refCount EXCEPT ![path] = @ + 1]
  BY DEF Publish
<1>2. UNCHANGED <<store, subscriber, slots, data, delivery, monitored, notification, visit, owed>>
  BY DEF Publish, application, notifying
<1> HIDE DEF path
<1>3. /\ publisher' \in [Publisher -> Key \cup {<<"none">>, <<"gone">>}]
      /\ published' \in [Key -> Nat] /\ refCount' \in [Key -> Nat]
  BY <1>1 DEF CountedIInv, TypeOK
<1>4. HandlesCounted'
  <2> SUFFICES ASSUME NEW k \in Key
               PROVE  refCount'[k] = published'[k] + Cardinality(Holders(data', k))
    BY DEF HandlesCounted, Holders
  <2>1. refCount[k] = published[k] + Cardinality(Holders(data, k))
    BY DEF CountedIInv, HandlesCounted, Holders
  <2>2. Cardinality(Holders(data, k)) \in Nat /\ data' = data
    BY <1>2, HoldersFinite
  <2>3. /\ refCount'[k] = IF k = path THEN refCount[k] + 1 ELSE refCount[k]
        /\ published'[k] = IF k = path THEN published[k] + 1 ELSE published[k]
        /\ published[k] \in Nat
    BY <1>1 DEF CountedIInv, TypeOK
  <2> QED
    BY <2>1, <2>2, <2>3
<1>5. DataShared' /\ ProxiesMonitored'
  BY <1>2 DEF CountedIInv, DataShared, Sharers, ProxiesMonitored
<1> QED
  BY <1>2, <1>3, <1>4, <1>5 DEF CountedIInv, TypeOK

\* The steps that leave the data, the counts and the handles alone.
LEMMA SameData ==
  ASSUME CountedIInv, UNCHANGED <<subscriber, data, refCount, monitored, published>>
  PROVE  DataShared' /\ HandlesCounted' /\ ProxiesMonitored'
BY DEF CountedIInv, DataShared, Sharers, HandlesCounted, ProxiesMonitored

LEMMA DropSlotsPreserves ==
  ASSUME CountedIInv, NEW s \in Subscriber, DropSlots(s)
  PROVE  CountedIInv'
<1>1. slots' \in [Subscriber -> 0 .. MaxSlots] /\ owed' \subseteq Subscriber
  BY SpaceAssumption DEF DropSlots, CountedIInv, TypeOK
<1>2. UNCHANGED <<subscriber, data, refCount, monitored, published, store, delivery, publisher,
                  notification, visit>>
  BY DEF DropSlots, layer, publishers, notifying
<1> QED
  BY <1>1, <1>2, SameData DEF CountedIInv, TypeOK

LEMMA DeliverPreserves ==
  ASSUME CountedIInv, NEW d \in Data, Deliver(d)
  PROVE  CountedIInv'
<1>1. delivery' \in [Data -> Nat] /\ owed' \subseteq Subscriber
  BY DEF Deliver, CountedIInv, TypeOK
<1>2. UNCHANGED <<subscriber, data, refCount, monitored, published, store, slots, publisher,
                  notification, visit>>
  BY DEF Deliver, layer, publishers, notifying
<1> QED
  BY <1>1, <1>2, SameData DEF CountedIInv, TypeOK

LEMMA UnpublishPreserves ==
  ASSUME CountedIInv, NEW p \in Publisher, Unpublish(p)
  PROVE  CountedIInv'
<1>1. publisher' \in [Publisher -> Key \cup {<<"none">>, <<"gone">>}]
  BY DEF Unpublish, CountedIInv, TypeOK
<1>2. UNCHANGED <<subscriber, data, refCount, monitored, published, store, slots, delivery, owed,
                  notification, visit>>
  BY DEF Unpublish, application, layer, notifying
<1> QED
  BY <1>1, <1>2, SameData DEF CountedIInv, TypeOK

LEMMA StartNotifyPreserves ==
  ASSUME CountedIInv, StartNotify
  PROVE  CountedIInv'
<1>1. /\ visit'.key = Head(notification) /\ visit'.handles = monitored
      /\ notification' = Tail(notification) /\ notification # <<>>
  BY DEF StartNotify
<1>2. notification \in Seq(Key)
  BY DEF CountedIInv, TypeOK
<1>3. Head(notification) \in Key /\ notification' \in Seq(Key)
  BY <1>1, <1>2
<1>4. visit'.key \in Seq(STRING) /\ visit'.handles \subseteq Key
  BY <1>1, <1>3, SpaceAssumption DEF CountedIInv, TypeOK
<1>5. UNCHANGED <<subscriber, data, refCount, monitored, published, store, slots, delivery,
                  publisher, owed>>
  BY DEF StartNotify, application, layer, publishers
<1> QED
  BY <1>3, <1>4, <1>5, SameData DEF CountedIInv, TypeOK

LEMMA NotifyHandlePreserves ==
  ASSUME CountedIInv, NEW handle \in Key, NotifyHandle(handle)
  PROVE  CountedIInv'
<1>1. delivery \in [Data -> Nat]
  BY DEF CountedIInv, TypeOK
<1>2. Posted(handle) \in [Data -> Nat]
  BY <1>1 DEF Posted
<1>3. delivery' \in [Data -> Nat]
  BY <1>1, <1>2 DEF NotifyHandle
<1>4. visit'.key = visit.key /\ visit'.handles = visit.handles \ {handle}
  BY DEF NotifyHandle
<1>5. UNCHANGED <<subscriber, data, refCount, monitored, published, store, slots, notification,
                  publisher, owed>>
  BY DEF NotifyHandle, layer, publishers
<1> QED
  BY <1>3, <1>4, <1>5, SameData DEF CountedIInv, TypeOK

LEMMA CountedInit ==
  ASSUME Init
  PROVE  CountedIInv
<1>1. /\ data = [d \in Data |-> Unused] /\ subscriber = [s \in Subscriber |-> NoData]
      /\ refCount = [k \in Key |-> 0] /\ published = [k \in Key |-> 0]
      /\ store = [k \in Key |-> Unset] /\ slots = NoCounts /\ delivery = [d \in Data |-> 0]
      /\ publisher = [p \in Publisher |-> <<"none">>] /\ monitored = {} /\ owed = {}
      /\ notification = <<>> /\ visit = Idle
  BY DEF Init
<1>2. Unused \in Record /\ ~Unused.used /\ ~Unused.connected /\ ~Unused.proxy
  BY UnusedIsRecord DEF Unused
<1>3. slots \in [Subscriber -> 0 .. MaxSlots] /\ delivery \in [Data -> Nat]
  BY <1>1, SpaceAssumption DEF NoCounts
<1>4. visit.key \in Seq(STRING) /\ visit.handles \subseteq Key
  BY <1>1 DEF Idle
<1>5. TypeOK
  BY <1>1, <1>2, <1>3, <1>4 DEF TypeOK
<1>6. DataShared /\ ProxiesMonitored
  BY <1>1, <1>2, SpaceAssumption DEF DataShared, ProxiesMonitored, Sharers
<1>7. ASSUME NEW k \in Key
      PROVE  refCount[k] = published[k] + Cardinality({d \in Data : data[d].used /\ data[d].connected /\ data[d].path = k})
  <2> DEFINE H == {d \in Data : data[d].used /\ data[d].connected /\ data[d].path = k}
  <2>1. H = {}
    BY <1>1, <1>2
  <2>2. refCount[k] = 0 /\ published[k] = 0
    BY <1>1
  <2> HIDE DEF H
  <2>3. Cardinality(H) = 0
    BY <2>1, FS_EmptySet
  <2> QED
    BY <2>2, <2>3 DEF H
<1>8. HandlesCounted
  BY <1>7 DEF HandlesCounted
<1> QED
  BY <1>5, <1>6, <1>8 DEF CountedIInv

LEMMA CountedStep ==
  ASSUME CountedIInv, [Next]_vars
  PROVE  CountedIInv'
<1>1. CASE UNCHANGED vars
  BY <1>1, SameData DEF CountedIInv, TypeOK, vars, application, layer, publishers, notifying
<1>2. CASE Application
  <2>1. CASE \E s \in Subscriber :
               \/ \E argument \in PathArgument :
                    \/ \E filter \in Filter : Subscribe(s, argument, filter)
                    \/ SetPath(s, argument)
                    \/ Connected(s) /\ Cd(s, argument)
               \/ Unsubscribe(s) \/ (Connected(s) /\ CdUp(s))
               \/ ConnectSlot(s) \/ DisconnectSlot(s) \/ DropSlots(s) \/ ReadProperty(s)
               \/ \E t \in Subscriber : SetPathOf(s, t)
    <3> PICK s \in Subscriber :
               \/ \E argument \in PathArgument :
                    \/ \E filter \in Filter : Subscribe(s, argument, filter)
                    \/ SetPath(s, argument)
                    \/ Connected(s) /\ Cd(s, argument)
               \/ Unsubscribe(s) \/ (Connected(s) /\ CdUp(s))
               \/ ConnectSlot(s) \/ DisconnectSlot(s) \/ DropSlots(s) \/ ReadProperty(s)
               \/ \E t \in Subscriber : SetPathOf(s, t)
      BY <2>1
    <3>1. CASE \E argument \in PathArgument, filter \in Filter : Subscribe(s, argument, filter)
      BY <3>1, SubscribePreserves
    <3>2. ASSUME NEW argument, SetPath(s, argument)
          PROVE  CountedIInv'
      BY <3>2, SetPathPreserves
    <3>3. CASE \E argument \in PathArgument : Connected(s) /\ Cd(s, argument)
      BY <3>2, <3>3 DEF Cd
    <3>4. CASE Connected(s) /\ CdUp(s)
      BY <3>2, <3>4 DEF CdUp
    <3> QED
      BY <3>1, <3>2, <3>3, <3>4, UnsubscribePreserves, ConnectSlotPreserves,
         DisconnectSlotPreserves, DropSlotsPreserves, ReadPropertyPreserves, SetPathOfPreserves
  <2>2. ASSUME NEW p \in Publisher,
               \/ \E argument \in PathArgument, filter \in Filter : Publish(p, argument, filter)
               \/ Unpublish(p)
        PROVE  CountedIInv'
    BY <2>2, PublishPreserves, UnpublishPreserves
  <2>3. ASSUME NEW p \in Publisher, NEW argument \in PathArgument, ResetValue(p, argument)
        PROVE  CountedIInv'
    <3> DEFINE key == publisher[p] \o Canonical(argument)
               contents == [k \in Key |-> IF IsPrefix(key, k) THEN Unset ELSE store[k]]
    <3>1. Store(contents)
      BY <2>3 DEF ResetValue
    <3>2. contents \in [Key -> Value \cup {Unset} \cup {[kind |-> "String", content |-> v] : v \in Value}]
      BY DEF CountedIInv, TypeOK
    <3> HIDE DEF contents
    <3> QED
      BY <3>1, <3>2, StorePreserves
  <2>4. ASSUME NEW key \in Key, NEW value \in Value,
               Store([store EXCEPT ![key] = Stored(value)])
        PROVE  CountedIInv'
    <3> DEFINE contents == [store EXCEPT ![key] = Stored(value)]
    <3>1. contents \in [Key -> Value \cup {Unset} \cup {[kind |-> "String", content |-> v] : v \in Value}]
      BY StoredType DEF CountedIInv, TypeOK
    <3>2. Store(contents)
      BY <2>4
    <3> HIDE DEF contents
    <3> QED
      BY <3>1, <3>2, StorePreserves
  <2>5. ASSUME NEW p \in Publisher, NEW argument \in PathArgument, NEW value \in Value,
               SetValue(p, argument, value)
        PROVE  CountedIInv'
    BY <2>4, <2>5 DEF SetValue
  <2> QED
    BY <1>2, <2>1, <2>2, <2>3, <2>5 DEF Application
<1>3. CASE Elsewhere
  <2>1. PICK key \in Key, value \in Value : Store([store EXCEPT ![key] = Stored(value)])
    BY <1>3 DEF Elsewhere, WriteElsewhere
  <2> DEFINE contents == [store EXCEPT ![key] = Stored(value)]
  <2>2. contents \in [Key -> Value \cup {Unset} \cup {[kind |-> "String", content |-> v] : v \in Value}]
    BY StoredType DEF CountedIInv, TypeOK
  <2>3. Store(contents)
    BY <2>1
  <2> HIDE DEF contents
  <2> QED
    BY <2>2, <2>3, StorePreserves
<1>4. CASE Layer
  BY <1>4, StartNotifyPreserves, NotifyHandlePreserves DEF Layer
<1>5. CASE Main
  BY <1>5, DeliverPreserves DEF Main
<1> QED
  BY <1>1, <1>2, <1>3, <1>4, <1>5 DEF Next

\* The counts of the handles, with what they rest on, are kept by every step of the
\* application, of other processes and of the layer's thread.
THEOREM CountedInvariant == Spec => []CountedIInv
<1>1. Init => CountedIInv
  BY CountedInit
<1>2. CountedIInv /\ [Next]_vars => CountedIInv'
  BY CountedStep
<1> QED
  BY <1>1, <1>2, PTL DEF Spec

WiresCounted == \A d \in Data : Wired(data[d])

\* The data of a subscriber count its slots, and what it reads besides.
SlotsCounted ==
  \A s \in Subscriber :
    /\ ~Live(s) => slots[s] = 0
    /\ Connected(s) => slots[s] <= data[subscriber[s]].count[s]

ServedIInv == CountedIInv /\ WiresCounted /\ SlotsCounted

LEMMA ServedHolds ==
  ASSUME ServedIInv
  PROVE  SlotsServed
<1> SUFFICES ASSUME NEW s \in Subscriber, Connected(s), slots[s] > 0, ~Miscounted(s)
             PROVE  LET d == data[subscriber[s]]
                    IN  d.proxy /\ s \in d.wired /\ d.path \in monitored
  BY DEF SlotsServed
<1> DEFINE d == subscriber[s]
<1>1. d \in Data /\ Live(s) /\ data[d].count[s] \in Nat /\ slots[s] \in Nat
  BY DEF ServedIInv, CountedIInv, TypeOK, Connected, Live, Record
<1>2. slots[s] <= data[d].count[s]
  BY DEF ServedIInv, SlotsCounted
<1>3. data[d].count[s] > 0 /\ data[d].count[s] # 0
  BY <1>1, <1>2
<1>4. data[d].proxy /\ s \in data[d].wired
  BY <1>1, <1>3 DEF ServedIInv, WiresCounted, Wired, Miscounted
<1>5. data[d].path \in monitored
  BY <1>1, <1>4 DEF ServedIInv, CountedIInv, ProxiesMonitored
<1> QED
  BY <1>4, <1>5

\* Data that nobody counts in need no wires.
LEMMA UnusedWired == Wired(Unused)
BY DEF Wired, Unused, NoCounts

LEMMA NewDataWired ==
  ASSUME NEW d \in Data, NEW path \in Key, NEW filter
  PROVE  Wired(NewData(d, path, filter))
BY NewDataRecord DEF Wired, NoCounts

\* What records have to say of wires and slots before the d pointer of s moves.
Wireable(s, records) ==
  /\ \A d \in Data : Wired(records[d])
  /\ \A t \in Subscriber \ {s} : Connected(t) =>
       slots[t] <= records[subscriber[t]].count[t]
  /\ \A t \in Subscriber \ {s} : Live(t) =>
       (records[subscriber[t]].connected <=> data[subscriber[t]].connected)

LEMMA RepointServed ==
  ASSUME ServedIInv, NEW s \in Subscriber, NEW new, NEW records, NEW refs,
         new \in Data \cup {NoData}, records \in [Data -> Record], Wireable(s, records),
         Repoint(s, subscriber[s], new, records, refs),
         slots' \in [Subscriber -> 0 .. MaxSlots], slots'[s] = 0,
         \A t \in Subscriber \ {s} : slots'[t] = slots[t]
  PROVE  WiresCounted' /\ SlotsCounted'
<1> DEFINE old == subscriber[s]
           last == LastSharer(s, old, new)
<1>1. /\ subscriber \in [Subscriber -> Data \cup {NoData}] /\ slots \in [Subscriber -> 0 .. MaxSlots]
      /\ new \in Data \cup {NoData} /\ records \in [Data -> Record]
  BY DEF ServedIInv, CountedIInv, TypeOK
<1>2. /\ subscriber' = [subscriber EXCEPT ![s] = new]
      /\ data' = IF last THEN [records EXCEPT ![old] = Unused] ELSE records
  BY DEF Repoint
<1>3. last => old \in Data /\ old # new /\ Sharers(old) = {s}
  BY <1>1 DEF LastSharer
<1>4. \A d \in Data : data'[d] = IF last /\ d = old THEN Unused ELSE records[d]
  BY <1>1, <1>2, <1>3
<1>5. \A t \in Subscriber : Live(t)' <=> IF t = s THEN new # NoData ELSE Live(t)
  BY <1>1, <1>2 DEF Live
<1>6. WiresCounted'
  BY <1>4, UnusedWired DEF WiresCounted, Wireable
<1>7. SlotsCounted'
  <2> SUFFICES ASSUME NEW t \in Subscriber
               PROVE  /\ ~Live(t)' => slots'[t] = 0
                      /\ Connected(t)' => slots'[t] <= data'[subscriber'[t]].count[t]
    BY DEF SlotsCounted
  <2>1. CASE t = s
    <3>1. slots'[t] = 0
      BY <2>1
    <3>2. ASSUME Connected(t)'
          PROVE  slots'[t] <= data'[subscriber'[t]].count[t]
      <4>1. subscriber'[t] \in Data
        BY <3>2, <1>1, <1>2 DEF Connected, Live
      <4>2. data'[subscriber'[t]] \in Record
        BY <4>1, <1>1, <1>4, UnusedIsRecord
      <4>3. data'[subscriber'[t]].count[t] \in Nat
        BY <4>2 DEF Record
      <4> QED
        BY <3>1, <4>3
    <3> QED
      BY <3>1, <3>2
  <2>2. CASE t # s
    <3>1. subscriber'[t] = subscriber[t] /\ slots'[t] = slots[t]
      BY <2>2, <1>1, <1>2
    <3>2. Live(t)' <=> Live(t)
      BY <3>1 DEF Live
    <3>3. ASSUME Connected(t)'
          PROVE  slots'[t] <= data'[subscriber'[t]].count[t]
      <4> DEFINE d == subscriber[t]
      <4>1. Live(t) /\ d \in Data /\ data'[d].connected
        BY <3>1, <3>3, <1>1 DEF Connected, Live
      <4>2. ~(last /\ d = old)
        BY <1>3, <2>2 DEF Sharers
      <4>3. data'[d] = records[d]
        BY <4>1, <4>2, <1>4
      <4>4. records[d].connected <=> data[d].connected
        BY <4>1, <2>2 DEF Wireable
      <4>5. Connected(t)
        BY <4>1, <4>3, <4>4 DEF Connected
      <4>6. slots[t] <= records[d].count[t]
        BY <4>5, <2>2 DEF Wireable
      <4> QED
        BY <3>1, <4>3, <4>6
    <3> QED
      BY <3>1, <3>2, <3>3 DEF ServedIInv, SlotsCounted
  <2> QED
    BY <2>1, <2>2
<1> QED
  BY <1>6, <1>7

\* Records that leave the others' data counted as they were.
LEMMA StillWireable ==
  ASSUME ServedIInv, NEW s \in Subscriber, NEW spared \in SUBSET Data, NEW records,
         \A d \in Data : Wired(records[d]),
         \A d \in Data \ spared : (records[d].connected <=> data[d].connected)
            /\ \A t \in Subscriber \ {s} : records[d].count[t] = data[d].count[t],
         \A t \in Subscriber : subscriber[t] \notin spared
  PROVE  Wireable(s, records)
<1> SUFFICES ASSUME NEW t \in Subscriber \ {s}, Live(t)
             PROVE  /\ Connected(t) => slots[t] <= records[subscriber[t]].count[t]
                    /\ records[subscriber[t]].connected <=> data[subscriber[t]].connected
  BY DEF Wireable, Connected
<1>1. subscriber[t] \in Data \ spared
  BY DEF ServedIInv, CountedIInv, TypeOK, Live
<1> QED
  BY <1>1 DEF ServedIInv, SlotsCounted

LEMMA SubscribeServes ==
  ASSUME ServedIInv, NEW s \in Subscriber, NEW argument, NEW filter,
         Subscribe(s, argument, filter)
  PROVE  WiresCounted' /\ SlotsCounted'
<1> DEFINE path == Canonical(argument)
<1>1. /\ subscriber \in [Subscriber -> Data \cup {NoData}] /\ slots \in [Subscriber -> 0 .. MaxSlots]
      /\ data \in [Data -> Record]
  BY DEF ServedIInv, CountedIInv, TypeOK
<1>2. subscriber[s] = NoData /\ slots[s] = 0
  BY DEF Subscribe, Live, ServedIInv, SlotsCounted
<1>3. PICK d \in Data :
        /\ ~data[d].used /\ path \in Key
        /\ Repoint(s, NoData, d, [data EXCEPT ![d] = NewData(d, path, filter)],
                   Taken(path, filter))
  BY DEF Subscribe
<1> HIDE DEF path
<1> DEFINE records == [data EXCEPT ![d] = NewData(d, path, filter)]
<1>4. NewData(d, path, filter) \in Record /\ Wired(NewData(d, path, filter))
  BY <1>3, NewDataRecord, NewDataWired
<1>5. /\ records \in [Data -> Record] /\ \A e \in Data \ {d} : records[e] = data[e]
      /\ records[d] = NewData(d, path, filter)
  BY <1>1, <1>4
<1>6. Repoint(s, subscriber[s], d, records, Taken(path, filter))
  BY <1>2, <1>3
<1> HIDE DEF records
<1>7. \A t \in Subscriber : subscriber[t] # d
  BY <1>3 DEF ServedIInv, CountedIInv, DataShared, Sharers
<1>8. \A e \in Data : Wired(records[e])
  BY <1>4, <1>5 DEF ServedIInv, WiresCounted
<1>9. Wireable(s, records)
  <2>1. {d} \in SUBSET Data /\ \A t \in Subscriber : subscriber[t] \notin {d}
    BY <1>7
  <2> QED
    BY <1>5, <1>8, <2>1, StillWireable
<1>10. slots' = slots
  BY DEF Subscribe
<1> QED
  BY <1>1, <1>2, <1>3, <1>5, <1>6, <1>9, <1>10, RepointServed

LEMMA UnsubscribeServes ==
  ASSUME ServedIInv, NEW s \in Subscriber, Unsubscribe(s)
  PROVE  WiresCounted' /\ SlotsCounted'
<1> DEFINE old == subscriber[s]
           left == IF Connected(s) THEN [data EXCEPT ![old] = Disconnected(@, s)] ELSE data
           records == [d \in Data |-> Unwired(left[d], s)]
<1>1. /\ slots \in [Subscriber -> 0 .. MaxSlots] /\ data \in [Data -> Record] /\ old \in Data
  BY DEF ServedIInv, CountedIInv, TypeOK, Unsubscribe, Live
<1>2. Repoint(s, subscriber[s], NoData, records, refCount)
  BY DEF Unsubscribe
<1>3. ASSUME NEW e \in Data
      PROVE  /\ left[e] \in Record /\ Wired(left[e])
             /\ left[e].connected <=> data[e].connected
             /\ \A t \in Subscriber \ {s} : left[e].count[t] = data[e].count[t]
  <2>1. left[e] \in {data[e], Disconnected(data[e], s)}
    BY <1>1
  <2>2. data[e] \in Record /\ Wired(data[e])
    BY <1>1 DEF ServedIInv, WiresCounted
  <2> HIDE DEF left
  <2> QED
    BY <2>1, <2>2, DisconnectedRecord
<1> HIDE DEF left
<1>4. \A e \in Data : records[e] = Unwired(left[e], s)
  OBVIOUS
<1>5. ASSUME NEW e \in Data
      PROVE  /\ records[e] \in Record /\ Wired(records[e])
             /\ records[e].connected <=> data[e].connected
             /\ \A t \in Subscriber \ {s} : records[e].count[t] = data[e].count[t]
  <2> HIDE DEF records
  <2>1. left[e] \in Record /\ Wired(left[e]) /\ records[e] = Unwired(left[e], s)
    BY <1>3, <1>4
  <2>2. records[e].count = left[e].count /\ records[e].connected = left[e].connected
    BY <2>1, UnwiredRecord
  <2> QED
    BY <1>3, <2>1, <2>2, UnwiredRecord
<1>6. records \in [Data -> Record]
  BY <1>5
<1> HIDE DEF records, old
<1>7. Wireable(s, records)
  <2> DEFINE none == {}
  <2>1. none \in SUBSET Data /\ \A t \in Subscriber : subscriber[t] \notin none
    OBVIOUS
  <2> HIDE DEF none
  <2>2. \A e \in Data \ none : (records[e].connected <=> data[e].connected)
           /\ \A t \in Subscriber \ {s} : records[e].count[t] = data[e].count[t]
    BY <1>5
  <2>3. \A e \in Data : Wired(records[e])
    BY <1>5
  <2> QED
    BY <2>1, <2>2, <2>3, StillWireable
<1>8. slots' = [slots EXCEPT ![s] = 0]
  BY DEF Unsubscribe
<1>9. slots' \in [Subscriber -> 0 .. MaxSlots] /\ slots'[s] = 0
      /\ \A t \in Subscriber \ {s} : slots'[t] = slots[t]
  BY <1>1, <1>8, SpaceAssumption
<1> QED
  BY <1>2, <1>6, <1>7, <1>9, RepointServed

LEMMA SetPathServes ==
  ASSUME ServedIInv, NEW s \in Subscriber, NEW argument, SetPath(s, argument)
  PROVE  WiresCounted' /\ SlotsCounted'
<1> DEFINE path == Canonical(argument)
           old == subscriber[s]
<1>1. /\ slots \in [Subscriber -> 0 .. MaxSlots] /\ data \in [Data -> Record] /\ old \in Data
  BY DEF ServedIInv, CountedIInv, TypeOK, SetPath, Connected, Live
<1>2. PICK d \in Data :
        /\ ~data[d].used /\ path \in Key
        /\ Repoint(s, old, d,
                   [data EXCEPT ![old] = Disconnected(@, s), ![d] = NewData(d, path, {})],
                   Taken(path, {}))
  BY DEF SetPath
<1> DEFINE records == [data EXCEPT ![old] = Disconnected(@, s), ![d] = NewData(d, path, {})]
<1> HIDE DEF path
<1>3. d \in Data /\ path \in Key /\ \A t \in Subscriber : subscriber[t] # d
  BY <1>2 DEF ServedIInv, CountedIInv, DataShared, Sharers
<1>4. NewData(d, path, {}) \in Record /\ Wired(NewData(d, path, {}))
  BY <1>3, NewDataRecord, NewDataWired
<1>5. records[d] = NewData(d, path, {})
      /\ \A e \in Data \ {d} : records[e] \in {data[e], Disconnected(data[e], s)}
  BY <1>1
<1>6. records \in [Data -> Record]
  BY <1>1, <1>4, DisconnectedRecord
<1>7. Repoint(s, subscriber[s], d, records, Taken(path, {}))
  BY <1>2
<1> HIDE DEF records, old
<1>8. ASSUME NEW e \in Data \ {d}
      PROVE  /\ Wired(records[e]) /\ (records[e].connected <=> data[e].connected)
             /\ \A t \in Subscriber \ {s} : records[e].count[t] = data[e].count[t]
  <2>1. data[e] \in Record /\ Wired(data[e])
    BY <1>1 DEF ServedIInv, WiresCounted
  <2>2. records[e] = data[e] \/ records[e] = Disconnected(data[e], s)
    BY <1>5
  <2>3. CASE records[e] = Disconnected(data[e], s)
    BY <2>1, <2>3, DisconnectedRecord
  <2> QED
    BY <2>1, <2>2, <2>3
<1>9. Wireable(s, records)
  <2>1. {d} \in SUBSET Data /\ \A t \in Subscriber : subscriber[t] \notin {d}
    BY <1>3
  <2>2. \A e \in Data : Wired(records[e])
    BY <1>4, <1>5, <1>8
  <2> QED
    BY <1>8, <2>1, <2>2, StillWireable
<1>10. slots' = [slots EXCEPT ![s] = 0]
  BY DEF SetPath, Moved
<1>11. slots' \in [Subscriber -> 0 .. MaxSlots] /\ slots'[s] = 0
       /\ \A t \in Subscriber \ {s} : slots'[t] = slots[t]
  BY <1>1, <1>10, SpaceAssumption
<1> QED
  BY <1>3, <1>6, <1>7, <1>9, <1>11, RepointServed

LEMMA SetPathOfServes ==
  ASSUME ServedIInv, NEW s \in Subscriber, NEW u \in Subscriber, SetPathOf(s, u)
  PROVE  WiresCounted' /\ SlotsCounted'
<1> DEFINE old == subscriber[s]
           new == subscriber[u]
           records == [data EXCEPT ![old] = Disconnected(@, s)]
<1>1. /\ slots \in [Subscriber -> 0 .. MaxSlots] /\ data \in [Data -> Record]
      /\ old \in Data /\ new \in Data
  BY DEF ServedIInv, CountedIInv, TypeOK, SetPathOf, Connected, Live
<1>2. records \in [Data -> Record]
  BY <1>1, DisconnectedRecord
<1>3. \A e \in Data : records[e] \in {data[e], Disconnected(data[e], s)}
  BY <1>1
<1>4. Repoint(s, subscriber[s], new, records, refCount)
  BY DEF SetPathOf
<1> HIDE DEF records, old, new
<1>5. ASSUME NEW e \in Data
      PROVE  /\ Wired(records[e]) /\ (records[e].connected <=> data[e].connected)
             /\ \A t \in Subscriber \ {s} : records[e].count[t] = data[e].count[t]
  <2>1. data[e] \in Record /\ Wired(data[e])
    BY <1>1 DEF ServedIInv, WiresCounted
  <2>2. records[e] = data[e] \/ records[e] = Disconnected(data[e], s)
    BY <1>3
  <2>3. CASE records[e] = Disconnected(data[e], s)
    BY <2>1, <2>3, DisconnectedRecord
  <2> QED
    BY <2>1, <2>2, <2>3
<1>6. Wireable(s, records)
  <2> DEFINE none == {}
  <2>1. none \in SUBSET Data /\ \A t \in Subscriber : subscriber[t] \notin none
    OBVIOUS
  <2> HIDE DEF none
  <2>2. \A e \in Data \ none : (records[e].connected <=> data[e].connected)
           /\ \A t \in Subscriber \ {s} : records[e].count[t] = data[e].count[t]
    BY <1>5
  <2>3. \A e \in Data : Wired(records[e])
    BY <1>5
  <2> QED
    BY <2>1, <2>2, <2>3, StillWireable
<1>7. slots' = [slots EXCEPT ![s] = 0]
  BY DEF SetPathOf, Moved
<1>8. slots' \in [Subscriber -> 0 .. MaxSlots] /\ slots'[s] = 0
      /\ \A t \in Subscriber \ {s} : slots'[t] = slots[t]
  BY <1>1, <1>7, SpaceAssumption
<1> QED
  BY <1>1, <1>2, <1>4, <1>6, <1>8, RepointServed

\* A slot that is connected, and a property that is read, add to one count.
LEMMA CountedUpServes ==
  ASSUME ServedIInv, NEW s \in Subscriber, Connected(s), subscriber' = subscriber,
         data' = [data EXCEPT ![subscriber[s]] = ConnectedTo(@, s)],
         slots' \in [Subscriber -> 0 .. MaxSlots], slots'[s] <= slots[s] + 1,
         \A t \in Subscriber \ {s} : slots'[t] = slots[t]
  PROVE  WiresCounted' /\ SlotsCounted'
<1> DEFINE d == subscriber[s]
<1>1. /\ subscriber \in [Subscriber -> Data \cup {NoData}] /\ slots \in [Subscriber -> 0 .. MaxSlots]
      /\ data \in [Data -> Record] /\ d \in Data /\ Live(s)
  BY DEF ServedIInv, CountedIInv, TypeOK, Connected, Live
<1>2. \A e \in Data : data'[e] = IF e = d THEN ConnectedTo(data[e], s) ELSE data[e]
  BY <1>1
<1>3. \A t : Live(t)' <=> Live(t)
  BY DEF Live
<1>4. WiresCounted'
  BY <1>1, <1>2, ConnectedRecord DEF ServedIInv, WiresCounted
<1>5. SlotsCounted'
  <2> SUFFICES ASSUME NEW t \in Subscriber
               PROVE  /\ ~Live(t) => slots'[t] = 0
                      /\ Connected(t)' => slots'[t] <= data'[subscriber[t]].count[t]
    BY <1>3 DEF SlotsCounted
  <2>1. /\ ~Live(t) => slots[t] = 0
        /\ Connected(t) => slots[t] <= data[subscriber[t]].count[t]
    BY DEF ServedIInv, SlotsCounted
  <2>2. CASE t = s
    <3>1. data'[d].count[s] = data[d].count[s] + 1 /\ data[d] \in Record
      BY <1>1, <1>2, ConnectedRecord
    <3>2. data[d].count[s] \in Nat /\ slots[s] \in Nat /\ slots'[s] \in Nat
      BY <1>1, <3>1 DEF Record
    <3>3. slots'[s] <= data'[d].count[s]
      BY <2>1, <2>2, <3>1, <3>2
    <3> QED
      BY <3>3, <2>2, <1>1
  <2>3. CASE t # s
    <3>1. ASSUME Connected(t)'
          PROVE  slots'[t] <= data'[subscriber[t]].count[t]
      <4> DEFINE e == subscriber[t]
      <4>1. e \in Data /\ Live(t) /\ data'[e].connected
        BY <3>1, <1>1, <1>3 DEF Connected, Live
      <4>2. data[e] \in Record
        BY <4>1, <1>1
      <4>3. (data'[e].connected <=> data[e].connected) /\ data'[e].count[t] = data[e].count[t]
        <5>1. CASE e = d
          <6>1. data'[e] = ConnectedTo(data[e], s)
            BY <5>1, <4>1, <1>2
          <6> QED
            BY <6>1, <4>2, <2>3, ConnectedRecord
        <5>2. CASE e # d
          BY <5>2, <4>1, <1>2
        <5> QED
          BY <5>1, <5>2
      <4>4. Connected(t)
        BY <4>1, <4>3 DEF Connected
      <4> QED
        BY <2>1, <2>3, <4>3, <4>4
    <3> QED
      BY <3>1, <2>1, <2>3
  <2> QED
    BY <2>2, <2>3
<1> QED
  BY <1>4, <1>5

LEMMA ConnectSlotServes ==
  ASSUME ServedIInv, NEW s \in Subscriber, ConnectSlot(s)
  PROVE  WiresCounted' /\ SlotsCounted'
<1>1. /\ slots \in [Subscriber -> 0 .. MaxSlots] /\ slots[s] < MaxSlots /\ Live(s)
      /\ slots' = [slots EXCEPT ![s] = @ + 1] /\ subscriber' = subscriber
  BY DEF ServedIInv, CountedIInv, TypeOK, ConnectSlot
<1>2. /\ slots' \in [Subscriber -> 0 .. MaxSlots] /\ slots'[s] <= slots[s] + 1
      /\ \A t \in Subscriber \ {s} : slots'[t] = slots[t]
  BY <1>1, SpaceAssumption
<1>3. CASE Connected(s)
  <2>1. data' = [data EXCEPT ![subscriber[s]] = ConnectedTo(@, s)]
    BY <1>3 DEF ConnectSlot
  <2> QED
    BY <1>1, <1>2, <1>3, <2>1, CountedUpServes
<1>4. CASE ~Connected(s)
  <2>1. data' = data
    BY <1>4 DEF ConnectSlot
  <2>2. WiresCounted'
    BY <2>1 DEF ServedIInv, WiresCounted
  <2>3. SlotsCounted'
    BY <1>1, <1>2, <1>4, <2>1 DEF ServedIInv, SlotsCounted, Live, Connected
  <2> QED
    BY <2>2, <2>3
<1> QED
  BY <1>3, <1>4

LEMMA ReadPropertyServes ==
  ASSUME ServedIInv, NEW s \in Subscriber, ReadProperty(s)
  PROVE  WiresCounted' /\ SlotsCounted'
<1>1. /\ slots \in [Subscriber -> 0 .. MaxSlots] /\ slots' = slots /\ Connected(s)
      /\ data' = [data EXCEPT ![subscriber[s]] = ConnectedTo(@, s)] /\ subscriber' = subscriber
  BY DEF ServedIInv, CountedIInv, TypeOK, ReadProperty
<1>2. slots'[s] <= slots[s] + 1
  BY <1>1, SpaceAssumption
<1> QED
  BY <1>1, <1>2, CountedUpServes

LEMMA DisconnectSlotServes ==
  ASSUME ServedIInv, NEW s \in Subscriber, DisconnectSlot(s)
  PROVE  WiresCounted' /\ SlotsCounted'
<1> DEFINE d == subscriber[s]
<1>1. /\ subscriber \in [Subscriber -> Data \cup {NoData}] /\ slots \in [Subscriber -> 0 .. MaxSlots]
      /\ data \in [Data -> Record] /\ slots[s] > 0 /\ subscriber' = subscriber
      /\ slots' = [slots EXCEPT ![s] = @ - 1]
  BY DEF ServedIInv, CountedIInv, TypeOK, DisconnectSlot
<1>2. slots[s] \in Nat /\ slots'[s] = slots[s] - 1 /\ slots'[s] \in Nat
      /\ \A t \in Subscriber \ {s} : slots'[t] = slots[t]
  BY <1>1, SpaceAssumption
<1>3. \A t : Live(t)' <=> Live(t)
  BY <1>1 DEF Live
<1>4. CASE ~Connected(s)
  <2>1. data' = data
    BY <1>4 DEF DisconnectSlot
  <2>2. WiresCounted'
    BY <2>1 DEF ServedIInv, WiresCounted
  <2>3. Live(s)
    BY <1>2, <1>1 DEF ServedIInv, SlotsCounted
  <2>4. SlotsCounted'
    BY <1>1, <1>2, <1>4, <2>1, <2>3 DEF ServedIInv, SlotsCounted, Live, Connected
  <2> QED
    BY <2>2, <2>4
<1>5. CASE Connected(s)
  <2>0. d \in Data /\ Live(s) /\ data' = [data EXCEPT ![d] = Disconnected(@, s)]
    BY <1>1, <1>5 DEF DisconnectSlot, Connected, Live
  <2>1. \A e \in Data : data'[e] = IF e = d THEN Disconnected(data[e], s) ELSE data[e]
    BY <1>1, <2>0
  <2>2. WiresCounted'
    <3> SUFFICES ASSUME NEW e \in Data
                 PROVE  Wired(data'[e])
      BY DEF WiresCounted
    <3>1. data[e] \in Record /\ Wired(data[e])
      BY <1>1 DEF ServedIInv, WiresCounted
    <3>2. data'[e] = data[e] \/ data'[e] = Disconnected(data[e], s)
      BY <2>1
    <3>3. CASE data'[e] = Disconnected(data[e], s)
      BY <3>1, <3>3, DisconnectedRecord
    <3> QED
      BY <3>1, <3>2, <3>3
  <2>3. SlotsCounted'
    <3> SUFFICES ASSUME NEW t \in Subscriber
                 PROVE  /\ ~Live(t) => slots'[t] = 0
                        /\ Connected(t)' => slots'[t] <= data'[subscriber[t]].count[t]
      BY <1>1, <1>3 DEF SlotsCounted
    <3>1. /\ ~Live(t) => slots[t] = 0
          /\ Connected(t) => slots[t] <= data[subscriber[t]].count[t]
      BY DEF ServedIInv, SlotsCounted
    <3>2. CASE t = s
      <4>1. data'[d] = Disconnected(data[d], s) /\ data[d] \in Record
        BY <1>1, <2>0, <2>1
      <4>2. data[d].count[s] \in Nat
        BY <4>1 DEF Record
      <4>3. data'[d].count[s] >= data[d].count[s] - 1
        <5>1. data'[d].count[s] = IF data[d].proxy /\ data[d].count[s] > 0
                                    THEN data[d].count[s] - 1 ELSE data[d].count[s]
          BY <4>1, DisconnectedRecord
        <5> QED
          BY <5>1, <4>2
      <4>4. data'[d].count[s] \in Nat
        BY <4>1, DisconnectedRecord DEF Record
      <4>5. slots[s] <= data[d].count[s]
        BY <3>1, <3>2, <1>5
      <4>6. slots'[s] <= data'[d].count[s]
        BY <1>2, <4>2, <4>3, <4>4, <4>5
      <4> QED
        BY <4>6, <3>2, <2>0
    <3>3. CASE t # s
      <4>1. ASSUME Connected(t)'
            PROVE  slots'[t] <= data'[subscriber[t]].count[t]
        <5> DEFINE e == subscriber[t]
        <5>1. e \in Data /\ Live(t) /\ data'[e].connected
          BY <4>1, <1>1, <1>3 DEF Connected, Live
        <5>2. data[e] \in Record
          BY <5>1, <1>1
        <5>3. (data'[e].connected <=> data[e].connected) /\ data'[e].count[t] = data[e].count[t]
          <6>1. CASE e = d
            <7>1. data'[e] = Disconnected(data[e], s)
              BY <6>1, <5>1, <2>1
            <7> QED
              BY <7>1, <5>2, <3>3, DisconnectedRecord
          <6>2. CASE e # d
            BY <6>2, <5>1, <2>1
          <6> QED
            BY <6>1, <6>2
        <5>4. Connected(t)
          BY <5>1, <5>3 DEF Connected
        <5> QED
          BY <3>1, <3>3, <5>3, <5>4, <1>2
      <4> QED
        BY <4>1, <3>1, <3>3, <1>2
    <3> QED
      BY <3>2, <3>3
  <2> QED
    BY <2>2, <2>3
<1> QED
  BY <1>4, <1>5

LEMMA DropSlotsServes ==
  ASSUME ServedIInv, NEW s \in Subscriber, DropSlots(s)
  PROVE  WiresCounted' /\ SlotsCounted'
<1>1. /\ slots \in [Subscriber -> 0 .. MaxSlots] /\ slots' = [slots EXCEPT ![s] = 0]
      /\ UNCHANGED <<subscriber, data>>
  BY DEF ServedIInv, CountedIInv, TypeOK, DropSlots
<1>2. WiresCounted'
  BY <1>1 DEF ServedIInv, WiresCounted
<1>3. SlotsCounted'
  <2> SUFFICES ASSUME NEW t \in Subscriber
               PROVE  /\ ~Live(t) => slots'[t] = 0
                      /\ Connected(t) => slots'[t] <= data[subscriber[t]].count[t]
    BY <1>1 DEF SlotsCounted, Live, Connected
  <2>1. CASE t # s
    BY <1>1, <2>1 DEF ServedIInv, SlotsCounted
  <2>2. CASE t = s
    <3>1. slots'[t] = 0
      BY <1>1, <2>2
    <3>2. Connected(t) => data[subscriber[t]].count[t] \in Nat
      BY DEF ServedIInv, CountedIInv, TypeOK, Record, Connected, Live
    <3> QED
      BY <3>1, <3>2
  <2> QED
    BY <2>1, <2>2
<1> QED
  BY <1>2, <1>3

\* The steps that connect and disconnect nobody.
LEMMA SameServed ==
  ASSUME ServedIInv, UNCHANGED <<subscriber, slots, data>>
  PROVE  WiresCounted' /\ SlotsCounted'
BY DEF ServedIInv, WiresCounted, SlotsCounted, Live, Connected

LEMMA ServedStep ==
  ASSUME ServedIInv, [Next]_vars
  PROVE  ServedIInv'
<1>1. CountedIInv'
  BY CountedStep DEF ServedIInv
<1> SUFFICES WiresCounted' /\ SlotsCounted'
  BY <1>1 DEF ServedIInv
<1>2. CASE UNCHANGED vars
  BY <1>2, SameServed DEF vars, application
<1>3. CASE Application
  <2>1. ASSUME NEW s \in Subscriber, NEW argument, NEW filter, Subscribe(s, argument, filter)
        PROVE  WiresCounted' /\ SlotsCounted'
    BY <2>1, SubscribeServes
  <2>2. ASSUME NEW s \in Subscriber, NEW argument, SetPath(s, argument)
        PROVE  WiresCounted' /\ SlotsCounted'
    BY <2>2, SetPathServes
  <2>3. ASSUME NEW s \in Subscriber, CdUp(s)
        PROVE  WiresCounted' /\ SlotsCounted'
    BY <2>2, <2>3 DEF CdUp
  <2>4. ASSUME NEW p \in Publisher, NEW argument, NEW filter, Publish(p, argument, filter)
        PROVE  WiresCounted' /\ SlotsCounted'
    BY <2>4, SameServed DEF Publish, application
  <2>5. ASSUME NEW contents, Store(contents)
        PROVE  WiresCounted' /\ SlotsCounted'
    BY <2>5, SameServed DEF Store, application
  <2>6. ASSUME NEW p \in Publisher, NEW argument, NEW value, SetValue(p, argument, value)
        PROVE  WiresCounted' /\ SlotsCounted'
    BY <2>5, <2>6 DEF SetValue
  <2>7. ASSUME NEW p \in Publisher, NEW argument, ResetValue(p, argument)
        PROVE  WiresCounted' /\ SlotsCounted'
    BY <2>5, <2>7 DEF ResetValue
  <2>8. ASSUME NEW p \in Publisher, Unpublish(p)
        PROVE  WiresCounted' /\ SlotsCounted'
    BY <2>8, SameServed DEF Unpublish, application
  <2> QED
    BY <1>3, <2>1, <2>2, <2>3, <2>4, <2>6, <2>7, <2>8, UnsubscribeServes, ConnectSlotServes,
       DisconnectSlotServes, DropSlotsServes, ReadPropertyServes, SetPathOfServes
       DEF Application, Cd
<1>4. CASE Elsewhere
  BY <1>4, SameServed DEF Elsewhere, WriteElsewhere, Store, application
<1>5. CASE Layer
  BY <1>5, SameServed DEF Layer, StartNotify, NotifyHandle, application
<1>6. CASE Main
  BY <1>6, SameServed DEF Main, Deliver
<1> QED
  BY <1>2, <1>3, <1>4, <1>5, <1>6 DEF Next

LEMMA ServedInit ==
  ASSUME Init
  PROVE  ServedIInv
<1>1. CountedIInv
  BY CountedInit
<1>2. /\ data = [d \in Data |-> Unused] /\ subscriber = [s \in Subscriber |-> NoData]
      /\ slots = NoCounts
  BY DEF Init
<1>3. Wired(Unused) /\ ~Unused.connected
  BY UnusedWired DEF Unused
<1>4. WiresCounted /\ SlotsCounted
  BY <1>2, <1>3 DEF WiresCounted, SlotsCounted, Live, Connected, NoCounts
<1> QED
  BY <1>1, <1>4 DEF ServedIInv

\* So are the wires of the subscribers and the counts of their slots, wherever new
\* subscribers come to lie.
THEOREM ServedInvariant == Spec => []ServedIInv
<1>1. Init => ServedIInv
  BY ServedInit
<1>2. ServedIInv /\ [Next]_vars => ServedIInv'
  BY ServedStep
<1> QED
  BY <1>1, <1>2, PTL DEF Spec

\* A handle hears of every key its path is a prefix of.
LEMMA PrefixStarts ==
  ASSUME NEW path \in Key, NEW key \in Seq(STRING), IsPrefix(path, key)
  PROVE  StartsWith(key, path)
<1> SUFFICES ASSUME path # <<>>
             PROVE  /\ Len(path) <= Len(key)
                    /\ Front(path) = SubSeq(key, 1, Len(path) - 1)
                    /\ NameStarts[<<key[Len(path)], Last(path)>>]
  BY DEF StartsWith
<1> DEFINE n == Len(path)
<1>1. path \in Seq(STRING) /\ n \in Nat /\ n > 0
  BY SpaceAssumption
<1>2. n <= Len(key) /\ SubSeq(path, 1, n) = SubSeq(key, 1, n) /\ Len(key) \in Nat
  BY DEF IsPrefix
<1>3. \A i \in 1 .. n : path[i] \in STRING /\ key[i] \in STRING
  BY <1>1, <1>2
<1>4. \A i \in 1 .. n : path[i] = key[i]
  <2> HIDE DEF n
  <2>1. \A i \in 1 .. n : SubSeq(path, 1, n)[i] = path[i] /\ SubSeq(key, 1, n)[i] = key[i]
    BY <1>1, <1>3, SubSeqProperties
  <2> QED
    BY <2>1, <1>2
<1>5. SubSeq(path, 1, n - 1) = SubSeq(key, 1, n - 1)
  <2> HIDE DEF n
  <2>1. n - 1 \in Int /\ \A i \in 1 .. n - 1 : i \in 1 .. n
    BY <1>1
  <2>2. /\ SubSeq(path, 1, n - 1) \in Seq(STRING) /\ SubSeq(key, 1, n - 1) \in Seq(STRING)
        /\ Len(SubSeq(path, 1, n - 1)) = Len(SubSeq(key, 1, n - 1))
        /\ \A i \in 1 .. n - 1 : SubSeq(path, 1, n - 1)[i] = path[i]
                                 /\ SubSeq(key, 1, n - 1)[i] = key[i]
    BY <1>1, <1>3, <2>1, SubSeqProperties
  <2>3. Len(SubSeq(path, 1, n - 1)) = n - 1
    BY <1>1, <1>3, <2>1, SubSeqProperties
  <2> QED
    BY <1>4, <2>1, <2>2, <2>3
<1>6. key[n] = path[n] /\ NameStarts[<<path[n], path[n]>>]
  BY <1>1, <1>4, SpaceAssumption
<1> QED
  BY <1>2, <1>5, <1>6 DEF Front, Last

\* What is announced is every key that changed.
LEMMA EveryChangeAnnounced ==
  ASSUME NEW changed, changed \in SUBSET Key, NEW order \in SetToSeqs(changed), NEW k \in changed
  PROVE  order \in Seq(Key) /\ \E i \in 1 .. Len(order) : order[i] = k
<1> DEFINE n == Cardinality(changed)
<1>1. IsFiniteSet(changed) /\ n \in Nat
  BY SpaceAssumption, FS_Subset, FS_CardinalityType
<1>2. order \in [1 .. n -> changed] /\ \A i, j \in 1 .. n : i # j => order[i] # order[j]
  BY DEF SetToSeqs
<1> HIDE DEF n
<1>3. order \in Seq(changed) /\ order \in Seq(Key) /\ Len(order) = n
  BY <1>1, <1>2, SeqDef
<1>4. order \in Injection(1 .. n, changed)
  BY <1>2 DEF Injection, IsInjective
<1>5. Cardinality(1 .. n) = n
  BY <1>1, FS_Interval
<1>6. order \in Surjection(1 .. n, changed)
  BY <1>1, <1>4, <1>5, FS_Injection DEF n
<1> QED
  BY <1>3, <1>6 DEF Surjection

\* The change s has still to hear of comes its way, and s is wired for it.
UnderWay(s) ==
  /\ ~Miscounted(s)
  /\ \/ \E i \in 1 .. Len(notification) : IsPrefix(data[subscriber[s]].path, notification[i])
     \/ /\ data[subscriber[s]].path \in visit.handles
        /\ IsPrefix(data[subscriber[s]].path, visit.key)
     \/ delivery[subscriber[s]] > 0

OwedUnderWay == \A s \in owed : Connected(s) /\ slots[s] > 0 /\ UnderWay(s)

\* The change follows the data, which stay while s is there.
LEMMA StaysUnderWay ==
  ASSUME CountedIInv, NEW s \in Subscriber, UnderWay(s), Live(s), subscriber'[s] = subscriber[s],
         data'[subscriber[s]].path = data[subscriber[s]].path,
         s \in data'[subscriber[s]].haunted => s \in data[subscriber[s]].haunted,
         delivery'[subscriber[s]] = delivery[subscriber[s]],
         UNCHANGED <<notification, visit>>
  PROVE  UnderWay(s)'
BY DEF UnderWay, Miscounted

\* Another subscriber's move does not touch the data of s.
LEMMA RepointUnderWay ==
  ASSUME CountedIInv, NEW t \in Subscriber, NEW new \in Data \cup {NoData},
         NEW records \in [Data -> Record], NEW refs,
         Repoint(t, subscriber[t], new, records, refs),
         NEW s \in Subscriber \ {t}, Connected(s), UnderWay(s),
         records[subscriber[s]].path = data[subscriber[s]].path,
         records[subscriber[s]].connected <=> data[subscriber[s]].connected,
         s \in records[subscriber[s]].haunted => s \in data[subscriber[s]].haunted,
         UNCHANGED <<notification, visit>>
  PROVE  Connected(s)' /\ UnderWay(s)'
<1> DEFINE d == subscriber[s]
           last == LastSharer(t, subscriber[t], new)
<1>1. /\ subscriber \in [Subscriber -> Data \cup {NoData}] /\ delivery \in [Data -> Nat]
      /\ d \in Data /\ Live(s)
  BY DEF CountedIInv, TypeOK, Connected, Live
<1>2. /\ subscriber' = [subscriber EXCEPT ![t] = new]
      /\ data' = IF last THEN [records EXCEPT ![subscriber[t]] = Unused] ELSE records
      /\ delivery' = IF last THEN [delivery EXCEPT ![subscriber[t]] = 0] ELSE delivery
  BY DEF Repoint
<1>3. last => subscriber[t] # d
  BY <1>1 DEF LastSharer, Sharers
<1>4. subscriber'[s] = d /\ data'[d] = records[d] /\ delivery'[d] = delivery[d]
  BY <1>1, <1>2, <1>3
<1>5. UnderWay(s)'
  BY <1>1, <1>4, StaysUnderWay
<1>6. Connected(s)'
  BY <1>1, <1>4 DEF Connected, Live
<1> QED
  BY <1>5, <1>6

PendingIInv == ServedIInv /\ OwedUnderWay

LEMMA SubscribeUnderWay ==
  ASSUME PendingIInv, NEW t \in Subscriber, NEW argument, NEW filter,
         Subscribe(t, argument, filter)
  PROVE  OwedUnderWay'
<1> DEFINE path == Canonical(argument)
<1>1. data \in [Data -> Record] /\ subscriber \in [Subscriber -> Data \cup {NoData}]
      /\ owed \subseteq Subscriber
  BY DEF PendingIInv, ServedIInv, CountedIInv, TypeOK
<1>2. subscriber[t] = NoData /\ ~Live(t)
  BY DEF Subscribe, Live
<1>3. PICK d \in Data :
        /\ ~data[d].used /\ path \in Key
        /\ Repoint(t, NoData, d, [data EXCEPT ![d] = NewData(d, path, filter)],
                   Taken(path, filter))
  BY DEF Subscribe
<1> HIDE DEF path
<1> DEFINE records == [data EXCEPT ![d] = NewData(d, path, filter)]
<1>4. records \in [Data -> Record] /\ \A e \in Data \ {d} : records[e] = data[e]
  BY <1>1, <1>3, NewDataRecord
<1>5. Repoint(t, subscriber[t], d, records, Taken(path, filter))
  BY <1>2, <1>3
<1> HIDE DEF records
<1>6. \A s \in Subscriber : subscriber[s] # d
  BY <1>3 DEF PendingIInv, ServedIInv, CountedIInv, DataShared, Sharers
<1>7. UNCHANGED <<notification, visit, owed, slots>>
  BY DEF Subscribe, notifying
<1> SUFFICES ASSUME NEW s \in owed
             PROVE  Connected(s)' /\ slots'[s] > 0 /\ UnderWay(s)'
  BY <1>7 DEF OwedUnderWay
<1>8. Connected(s) /\ slots[s] > 0 /\ UnderWay(s) /\ s \in Subscriber
  BY <1>1 DEF PendingIInv, OwedUnderWay
<1>9. s # t /\ subscriber[s] \in Data \ {d}
  BY <1>1, <1>2, <1>6, <1>8 DEF Connected, Live
<1>10. records[subscriber[s]] = data[subscriber[s]]
  BY <1>4, <1>9
<1> QED
  BY <1>3, <1>4, <1>5, <1>7, <1>8, <1>9, <1>10, RepointUnderWay DEF PendingIInv, ServedIInv

LEMMA UnsubscribeUnderWay ==
  ASSUME PendingIInv, NEW t \in Subscriber, Unsubscribe(t)
  PROVE  OwedUnderWay'
<1> DEFINE old == subscriber[t]
           left == IF Connected(t) THEN [data EXCEPT ![old] = Disconnected(@, t)] ELSE data
           records == [d \in Data |-> Unwired(left[d], t)]
<1>1. /\ subscriber \in [Subscriber -> Data \cup {NoData}] /\ slots \in [Subscriber -> 0 .. MaxSlots]
      /\ data \in [Data -> Record] /\ old \in Data /\ owed \subseteq Subscriber
  BY DEF PendingIInv, ServedIInv, CountedIInv, TypeOK, Unsubscribe, Live
<1>2. left \in [Data -> Record]
  BY <1>1, DisconnectedRecord
<1>3. Repoint(t, subscriber[t], NoData, records, refCount)
  BY DEF Unsubscribe
<1>4. ASSUME NEW e \in Data
      PROVE  /\ left[e].path = data[e].path /\ (left[e].connected <=> data[e].connected)
             /\ left[e].haunted \subseteq data[e].haunted
  <2>0. data[e] \in Record
    BY <1>1
  <2>1. CASE Connected(t) /\ e = old
    <3>1. left[e] = Disconnected(data[e], t)
      BY <2>1, <1>1
    <3> QED
      BY <2>0, <3>1, DisconnectedRecord
  <2>2. CASE ~(Connected(t) /\ e = old)
    <3>1. left[e] = data[e]
      BY <2>2, <1>1
    <3> QED
      BY <3>1
  <2> QED
    BY <2>1, <2>2
<1> HIDE DEF left, old
<1>5. \A e \in Data : records[e] = Unwired(left[e], t) /\ left[e] \in Record
  BY <1>2
<1> HIDE DEF records
<1>6. ASSUME NEW e \in Data
      PROVE  /\ records[e] \in Record /\ records[e].path = data[e].path
             /\ (records[e].connected <=> data[e].connected)
             /\ records[e].haunted \subseteq data[e].haunted \cup {t}
  <2>1. left[e] \in Record /\ records[e] = Unwired(left[e], t)
    BY <1>5
  <2>2. records[e] \in Record /\ records[e].path = left[e].path
        /\ records[e].connected = left[e].connected
        /\ records[e].haunted \subseteq left[e].haunted \cup {t}
    BY <2>1, UnwiredRecord
  <2> QED
    BY <2>2, <1>4
<1>7. records \in [Data -> Record]
  BY <1>6 DEF records
<1>8. slots' = [slots EXCEPT ![t] = 0] /\ owed' = owed \ {t} /\ UNCHANGED <<notification, visit>>
  BY DEF Unsubscribe, notifying
<1> SUFFICES ASSUME NEW s \in owed, s # t
             PROVE  Connected(s)' /\ slots'[s] > 0 /\ UnderWay(s)'
  BY <1>8 DEF OwedUnderWay
<1>9. Connected(s) /\ slots[s] > 0 /\ UnderWay(s) /\ s \in Subscriber /\ slots'[s] = slots[s]
  BY <1>1, <1>8 DEF PendingIInv, OwedUnderWay
<1>10. subscriber[s] \in Data
  BY <1>1, <1>9 DEF Connected, Live
<1>11. /\ records[subscriber[s]].path = data[subscriber[s]].path
       /\ (records[subscriber[s]].connected <=> data[subscriber[s]].connected)
       /\ (s \in records[subscriber[s]].haunted => s \in data[subscriber[s]].haunted)
  BY <1>6, <1>10
<1>12. Connected(s)' /\ UnderWay(s)'
  BY <1>3, <1>7, <1>8, <1>9, <1>11, RepointUnderWay DEF PendingIInv, ServedIInv
<1> QED
  BY <1>9, <1>12

LEMMA SetPathUnderWay ==
  ASSUME PendingIInv, NEW t \in Subscriber, NEW argument, SetPath(t, argument)
  PROVE  OwedUnderWay'
<1> DEFINE path == Canonical(argument)
           old == subscriber[t]
<1>1. /\ subscriber \in [Subscriber -> Data \cup {NoData}] /\ slots \in [Subscriber -> 0 .. MaxSlots]
      /\ data \in [Data -> Record] /\ old \in Data /\ owed \subseteq Subscriber
  BY DEF PendingIInv, ServedIInv, CountedIInv, TypeOK, SetPath, Connected, Live
<1>2. PICK d \in Data :
        /\ ~data[d].used /\ path \in Key
        /\ Repoint(t, old, d,
                   [data EXCEPT ![old] = Disconnected(@, t), ![d] = NewData(d, path, {})],
                   Taken(path, {}))
  BY DEF SetPath
<1> DEFINE records == [data EXCEPT ![old] = Disconnected(@, t), ![d] = NewData(d, path, {})]
<1> HIDE DEF path
<1>3. d \in Data /\ path \in Key /\ \A s \in Subscriber : subscriber[s] # d
  BY <1>2 DEF PendingIInv, ServedIInv, CountedIInv, DataShared, Sharers
<1>4. NewData(d, path, {}) \in Record
  BY <1>3, NewDataRecord
<1>5. records \in [Data -> Record]
  BY <1>1, <1>4, DisconnectedRecord
<1>6. \A e \in Data \ {d} :
        records[e] = IF e = old THEN Disconnected(data[e], t) ELSE data[e]
  BY <1>1
<1>7. Repoint(t, subscriber[t], d, records, Taken(path, {}))
  BY <1>2
<1> HIDE DEF records, old
<1>8. ASSUME NEW e \in Data \ {d}
      PROVE  /\ records[e].path = data[e].path /\ (records[e].connected <=> data[e].connected)
             /\ records[e].haunted \subseteq data[e].haunted
  <2>1. data[e] \in Record
    BY <1>1
  <2>2. CASE e = old
    <3>1. records[e] = Disconnected(data[e], t)
      BY <1>6, <2>2
    <3> QED
      BY <2>1, <3>1, DisconnectedRecord
  <2>3. CASE e # old
    BY <1>6, <2>3
  <2> QED
    BY <2>2, <2>3
<1>9. slots' = [slots EXCEPT ![t] = 0] /\ owed' = owed \ {t} /\ UNCHANGED <<notification, visit>>
  BY DEF SetPath, Moved, notifying
<1> SUFFICES ASSUME NEW s \in owed, s # t
             PROVE  Connected(s)' /\ slots'[s] > 0 /\ UnderWay(s)'
  BY <1>9 DEF OwedUnderWay
<1>10. Connected(s) /\ slots[s] > 0 /\ UnderWay(s) /\ s \in Subscriber /\ slots'[s] = slots[s]
  BY <1>1, <1>9 DEF PendingIInv, OwedUnderWay
<1>11. subscriber[s] \in Data \ {d}
  BY <1>1, <1>3, <1>10 DEF Connected, Live
<1>12. /\ records[subscriber[s]].path = data[subscriber[s]].path
       /\ (records[subscriber[s]].connected <=> data[subscriber[s]].connected)
       /\ (s \in records[subscriber[s]].haunted => s \in data[subscriber[s]].haunted)
  BY <1>8, <1>11
<1>13. Connected(s)' /\ UnderWay(s)'
  BY <1>3, <1>5, <1>7, <1>9, <1>10, <1>12, RepointUnderWay DEF PendingIInv, ServedIInv
<1> QED
  BY <1>10, <1>13

LEMMA SetPathOfUnderWay ==
  ASSUME PendingIInv, NEW t \in Subscriber, NEW u \in Subscriber, SetPathOf(t, u)
  PROVE  OwedUnderWay'
<1> DEFINE old == subscriber[t]
           new == subscriber[u]
           records == [data EXCEPT ![old] = Disconnected(@, t)]
<1>1. /\ subscriber \in [Subscriber -> Data \cup {NoData}] /\ slots \in [Subscriber -> 0 .. MaxSlots]
      /\ data \in [Data -> Record] /\ old \in Data /\ new \in Data /\ owed \subseteq Subscriber
  BY DEF PendingIInv, ServedIInv, CountedIInv, TypeOK, SetPathOf, Connected, Live
<1>2. records \in [Data -> Record]
  BY <1>1, DisconnectedRecord
<1>3. \A e \in Data : records[e] = IF e = old THEN Disconnected(data[e], t) ELSE data[e]
  BY <1>1
<1>4. Repoint(t, subscriber[t], new, records, refCount)
  BY DEF SetPathOf
<1> HIDE DEF records, old, new
<1>5. ASSUME NEW e \in Data
      PROVE  /\ records[e].path = data[e].path /\ (records[e].connected <=> data[e].connected)
             /\ records[e].haunted \subseteq data[e].haunted
  <2>1. data[e] \in Record
    BY <1>1
  <2>2. CASE e = old
    <3>1. records[e] = Disconnected(data[e], t)
      BY <1>3, <2>2
    <3> QED
      BY <2>1, <3>1, DisconnectedRecord
  <2>3. CASE e # old
    BY <1>3, <2>3
  <2> QED
    BY <2>2, <2>3
<1>6. slots' = [slots EXCEPT ![t] = 0] /\ owed' = owed \ {t} /\ UNCHANGED <<notification, visit>>
  BY DEF SetPathOf, Moved, notifying
<1> SUFFICES ASSUME NEW s \in owed, s # t
             PROVE  Connected(s)' /\ slots'[s] > 0 /\ UnderWay(s)'
  BY <1>6 DEF OwedUnderWay
<1>7. Connected(s) /\ slots[s] > 0 /\ UnderWay(s) /\ s \in Subscriber /\ slots'[s] = slots[s]
  BY <1>1, <1>6 DEF PendingIInv, OwedUnderWay
<1>8. subscriber[s] \in Data
  BY <1>1, <1>7 DEF Connected, Live
<1>9. /\ records[subscriber[s]].path = data[subscriber[s]].path
      /\ (records[subscriber[s]].connected <=> data[subscriber[s]].connected)
      /\ (s \in records[subscriber[s]].haunted => s \in data[subscriber[s]].haunted)
  BY <1>5, <1>8
<1>10. Connected(s)' /\ UnderWay(s)'
  BY <1>1, <1>2, <1>4, <1>6, <1>7, <1>9, RepointUnderWay DEF PendingIInv, ServedIInv
<1> QED
  BY <1>7, <1>10

\* Connecting and disconnecting leave who is owed a change where it is.
LEMMA SlotsUnderWay ==
  ASSUME PendingIInv, UNCHANGED <<subscriber, delivery, notification, visit>>,
         \A d \in Data : data'[d].path = data[d].path
                           /\ (data'[d].connected <=> data[d].connected)
                           /\ data'[d].haunted \subseteq data[d].haunted,
         owed' \subseteq owed, \A s \in owed' : slots'[s] > 0
  PROVE  OwedUnderWay'
<1> SUFFICES ASSUME NEW s \in owed'
             PROVE  Connected(s)' /\ slots'[s] > 0 /\ UnderWay(s)'
  BY DEF OwedUnderWay
<1>1. Connected(s) /\ UnderWay(s) /\ s \in Subscriber
  BY DEF PendingIInv, OwedUnderWay, ServedIInv, CountedIInv, TypeOK
<1>2. subscriber[s] \in Data /\ Live(s)
  BY <1>1 DEF PendingIInv, ServedIInv, CountedIInv, TypeOK, Connected, Live
<1>3. UnderWay(s)'
  BY <1>1, <1>2, StaysUnderWay DEF PendingIInv, ServedIInv
<1>4. Connected(s)'
  BY <1>1, <1>2 DEF Connected, Live
<1> QED
  BY <1>3, <1>4

LEMMA ConnectSlotUnderWay ==
  ASSUME PendingIInv, NEW t \in Subscriber, ConnectSlot(t) \/ ReadProperty(t)
  PROVE  OwedUnderWay'
<1>1. /\ data \in [Data -> Record] /\ slots \in [Subscriber -> 0 .. MaxSlots]
      /\ subscriber[t] \in Data /\ owed \subseteq Subscriber
  BY DEF PendingIInv, ServedIInv, CountedIInv, TypeOK, ConnectSlot, ReadProperty, Connected, Live
<1>2. UNCHANGED <<subscriber, delivery, notification, visit, owed>>
  BY DEF ConnectSlot, ReadProperty, notifying
<1>3. data' = data \/ data' = [data EXCEPT ![subscriber[t]] = ConnectedTo(@, t)]
  BY DEF ConnectSlot, ReadProperty
<1>4. ASSUME NEW d \in Data
      PROVE  /\ data'[d].path = data[d].path /\ (data'[d].connected <=> data[d].connected)
             /\ data'[d].haunted \subseteq data[d].haunted
  <2>1. CASE data'[d] = data[d]
    BY <2>1
  <2>2. CASE data'[d] = ConnectedTo(data[d], t)
    BY <1>1, <2>2, ConnectedRecord
  <2> QED
    BY <1>1, <1>3, <2>1, <2>2
<1>5. ASSUME NEW s \in owed'
      PROVE  slots'[s] > 0
  <2>1. slots[s] > 0 /\ slots[s] \in Nat /\ s \in Subscriber
    BY <1>1, <1>2 DEF PendingIInv, OwedUnderWay
  <2>2. slots' = slots \/ slots' = [slots EXCEPT ![t] = slots[t] + 1]
    BY DEF ConnectSlot, ReadProperty
  <2> QED
    BY <1>1, <2>1, <2>2
<1> QED
  BY <1>2, <1>4, <1>5, SlotsUnderWay

LEMMA DisconnectSlotUnderWay ==
  ASSUME PendingIInv, NEW t \in Subscriber, DisconnectSlot(t)
  PROVE  OwedUnderWay'
<1>1. /\ data \in [Data -> Record] /\ slots \in [Subscriber -> 0 .. MaxSlots]
      /\ subscriber \in [Subscriber -> Data \cup {NoData}] /\ owed \subseteq Subscriber
  BY DEF PendingIInv, ServedIInv, CountedIInv, TypeOK
<1>2. /\ UNCHANGED <<subscriber, delivery, notification, visit>>
      /\ slots[t] > 0 /\ slots' = [slots EXCEPT ![t] = slots[t] - 1]
      /\ owed' = IF slots[t] = 1 THEN owed \ {t} ELSE owed
      /\ data' = IF Connected(t) THEN [data EXCEPT ![subscriber[t]] = Disconnected(@, t)] ELSE data
  BY DEF DisconnectSlot, notifying
<1>3. ASSUME NEW d \in Data
      PROVE  /\ data'[d].path = data[d].path /\ (data'[d].connected <=> data[d].connected)
             /\ data'[d].haunted \subseteq data[d].haunted
  <2>1. CASE data'[d] = data[d]
    BY <2>1
  <2>2. CASE data'[d] = Disconnected(data[d], t)
    BY <1>1, <2>2, DisconnectedRecord
  <2> QED
    BY <1>1, <1>2, <2>1, <2>2
<1>4. ASSUME NEW s \in owed'
      PROVE  slots'[s] > 0
  <2>1. slots[s] > 0 /\ slots[s] \in Nat /\ s \in Subscriber
    BY <1>1, <1>2 DEF PendingIInv, OwedUnderWay
  <2> QED
    BY <1>1, <1>2, <2>1
<1>5. owed' \subseteq owed
  BY <1>2
<1> QED
  BY <1>2, <1>3, <1>4, <1>5, SlotsUnderWay

LEMMA DropSlotsUnderWay ==
  ASSUME PendingIInv, NEW t \in Subscriber, DropSlots(t)
  PROVE  OwedUnderWay'
<1>1. /\ slots \in [Subscriber -> 0 .. MaxSlots] /\ owed \subseteq Subscriber
      /\ UNCHANGED <<subscriber, delivery, notification, visit, data>>
      /\ owed' = owed \ {t} /\ slots' = [slots EXCEPT ![t] = 0]
  BY DEF PendingIInv, ServedIInv, CountedIInv, TypeOK, DropSlots, notifying
<1>2. \A s \in owed' : slots'[s] > 0
  BY <1>1 DEF PendingIInv, OwedUnderWay
<1>3. owed' \subseteq owed
  BY <1>1
<1> QED
  BY <1>1, <1>2, <1>3, SlotsUnderWay

\* Whoever is wired to the proxy that emits is told.
LEMMA DeliverUnderWay ==
  ASSUME PendingIInv, NEW d \in Data, Deliver(d)
  PROVE  OwedUnderWay'
<1>1. /\ delivery' = [delivery EXCEPT ![d] = delivery[d] - 1] /\ delivery \in [Data -> Nat]
      /\ owed' = owed \ data[d].wired /\ owed \subseteq Subscriber
      /\ UNCHANGED <<subscriber, slots, data, notification, visit>>
  BY DEF Deliver, notifying, PendingIInv, ServedIInv, CountedIInv, TypeOK
<1> SUFFICES ASSUME NEW s \in owed, s \notin data[d].wired
             PROVE  Connected(s)' /\ slots'[s] > 0 /\ UnderWay(s)'
  BY <1>1 DEF OwedUnderWay
<1>2. Connected(s) /\ slots[s] > 0 /\ UnderWay(s) /\ s \in Subscriber
  BY <1>1 DEF PendingIInv, OwedUnderWay
<1>3. s \in data[subscriber[s]].wired
  BY <1>2, ServedHolds DEF PendingIInv, SlotsServed, UnderWay
<1>4. subscriber[s] # d /\ subscriber[s] \in Data
  BY <1>2, <1>3 DEF PendingIInv, ServedIInv, CountedIInv, TypeOK, Connected, Live
<1>5. delivery'[subscriber[s]] = delivery[subscriber[s]]
  BY <1>1, <1>4
<1> QED
  BY <1>1, <1>2, <1>5 DEF UnderWay, Miscounted, Connected, Live

\* A key that changed is announced to the layer's thread.
LEMMA StoreUnderWay ==
  ASSUME PendingIInv, NEW contents, Store(contents)
  PROVE  OwedUnderWay'
<1> DEFINE changed == {k \in Key : contents[k] # store[k]}
           touched == {s \in Subscriber : Connected(s) /\ slots[s] > 0 /\ ~Miscounted(s)
                         /\ changed \cap Below(data[subscriber[s]].path) # {}}
<1>1. PICK order \in SetToSeqs(changed) : notification' = notification \o order
  BY DEF Store
<1>2. /\ UNCHANGED <<subscriber, slots, data, delivery, visit>> /\ owed' = owed \cup touched
      /\ notification \in Seq(Key) /\ owed \subseteq Subscriber
  BY DEF Store, application, PendingIInv, ServedIInv, CountedIInv, TypeOK
<1>3. ASSUME NEW k \in changed
      PROVE  order \in Seq(Key) /\ \E i \in 1 .. Len(order) : order[i] = k
  BY EveryChangeAnnounced
<1> HIDE DEF changed
<1> SUFFICES ASSUME NEW s \in owed'
             PROVE  Connected(s)' /\ slots'[s] > 0 /\ UnderWay(s)'
  BY DEF OwedUnderWay
<1>4. Store(contents) => changed # {}
  BY DEF Store, changed
<1>5. order \in Seq(Key)
  BY <1>3, <1>4
<1>6. /\ notification' \in Seq(Key) /\ Len(notification') = Len(notification) + Len(order)
      /\ \A i \in 1 .. Len(notification) + Len(order) :
           notification'[i] = IF i <= Len(notification) THEN notification[i]
                                ELSE order[i - Len(notification)]
  BY <1>1, <1>2, <1>5, ConcatProperties
<1>7. Len(notification) \in Nat /\ Len(order) \in Nat
  BY <1>2, <1>5
<1>8. CASE s \in owed
  <2>1. Connected(s) /\ slots[s] > 0 /\ UnderWay(s)
    BY <1>8 DEF PendingIInv, OwedUnderWay
  <2>2. ASSUME NEW i \in 1 .. Len(notification)
        PROVE  i \in 1 .. Len(notification') /\ notification'[i] = notification[i]
    BY <1>6, <1>7
  <2>3. UnderWay(s)'
    BY <1>2, <2>1, <2>2 DEF UnderWay, Miscounted
  <2> QED
    BY <1>2, <2>1, <2>3 DEF Connected, Live
<1>9. CASE s \in touched
  <2>1. PICK k \in changed : k \in Below(data[subscriber[s]].path)
    BY <1>9
  <2>2. IsPrefix(data[subscriber[s]].path, k)
    BY <2>1 DEF Below
  <2>3. PICK i \in 1 .. Len(order) : order[i] = k
    BY <1>3
  <2>4. /\ Len(notification) + i \in 1 .. Len(notification')
        /\ notification'[Len(notification) + i] = k
    <3> DEFINE n == Len(notification)
               m == Len(order)
               j == n + i
    <3>1. n \in Nat /\ m \in Nat /\ i \in 1 .. m
      BY <1>7, <2>3
    <3> HIDE DEF n, m
    <3>2. j \in 1 .. n + m /\ ~(j <= n) /\ j - n = i
      BY <3>1
    <3>3. notification'[j] = IF j <= n THEN notification[j] ELSE order[j - n]
      BY <1>6, <3>2 DEF n, m
    <3>4. notification'[j] = k
      BY <2>3, <3>2, <3>3
    <3> QED
      BY <1>6, <3>2, <3>4 DEF n, m
  <2>5. ~Miscounted(s)'
    BY <1>2, <1>9 DEF Miscounted
  <2>6. UnderWay(s)'
    BY <1>2, <2>2, <2>4, <2>5 DEF UnderWay
  <2> QED
    BY <1>2, <1>9, <2>6 DEF Connected, Live
<1> QED
  BY <1>2, <1>8, <1>9

\* The list the layer's thread copies holds the handle of who is served.
LEMMA StartNotifyUnderWay ==
  ASSUME PendingIInv, StartNotify
  PROVE  OwedUnderWay'
<1>1. /\ visit.handles = {} /\ notification # <<>>
      /\ visit' = [key |-> Head(notification), handles |-> monitored]
      /\ notification' = Tail(notification) /\ notification \in Seq(Key)
      /\ UNCHANGED <<subscriber, slots, data, delivery, owed>> /\ owed \subseteq Subscriber
  BY DEF StartNotify, application, PendingIInv, ServedIInv, CountedIInv, TypeOK
<1>2. /\ Len(Tail(notification)) = Len(notification) - 1 /\ Len(notification) \in Nat
      /\ \A i \in 1 .. Len(Tail(notification)) : Tail(notification)[i] = notification[i + 1]
      /\ Head(notification) = notification[1]
  BY <1>1, HeadTailProperties
<1> SUFFICES ASSUME NEW s \in owed
             PROVE  Connected(s)' /\ slots'[s] > 0 /\ UnderWay(s)'
  BY <1>1 DEF OwedUnderWay
<1>3. Connected(s) /\ slots[s] > 0 /\ UnderWay(s) /\ s \in Subscriber
  BY <1>1 DEF PendingIInv, OwedUnderWay
<1> DEFINE path == data[subscriber[s]].path
<1>4. path \in monitored
  BY <1>3, ServedHolds DEF PendingIInv, SlotsServed, UnderWay
<1>5. ~Miscounted(s)'
  BY <1>1, <1>3 DEF UnderWay, Miscounted
<1>6. UnderWay(s)'
  <2>1. CASE delivery[subscriber[s]] > 0
    BY <1>1, <1>5, <2>1 DEF UnderWay
  <2>2. ASSUME NEW i \in 1 .. Len(notification), IsPrefix(path, notification[i])
        PROVE  UnderWay(s)'
    <3>1. CASE i = 1
      <4>1. visit'.key = notification[1] /\ path \in visit'.handles
        BY <1>1, <1>2, <1>4
      <4> QED
        BY <1>1, <2>2, <3>1, <4>1, <1>5 DEF UnderWay
    <3>2. CASE i # 1
      <4>1. i - 1 \in 1 .. Len(notification') /\ notification'[i - 1] = notification[i]
        BY <1>1, <1>2, <2>2, <3>2
      <4> QED
        BY <1>1, <2>2, <4>1, <1>5 DEF UnderWay
    <3> QED
      BY <3>1, <3>2
  <2> QED
    BY <1>1, <1>3, <2>1, <2>2 DEF UnderWay
<1> QED
  BY <1>1, <1>3, <1>6 DEF Connected, Live

\* A monitored handle above the key is told of it, and the proxy of who is served
\* listens to it.
LEMMA NotifyHandleUnderWay ==
  ASSUME PendingIInv, NEW handle \in Key, NotifyHandle(handle)
  PROVE  OwedUnderWay'
<1>1. PICK told \in IF handle \in monitored THEN {StartsWith(visit.key, handle)} ELSE BOOLEAN :
        delivery' = IF told THEN Posted(handle) ELSE delivery
  BY DEF NotifyHandle
<1>2. /\ handle \in visit.handles
      /\ visit'.key = visit.key /\ visit'.handles = visit.handles \ {handle}
      /\ UNCHANGED <<subscriber, slots, data, notification, owed>> /\ owed \subseteq Subscriber
      /\ delivery \in [Data -> Nat] /\ visit.key \in Seq(STRING)
  BY DEF NotifyHandle, PendingIInv, ServedIInv, CountedIInv, TypeOK
<1>3. ASSUME NEW d \in Data
      PROVE  /\ delivery'[d] >= delivery[d] /\ delivery[d] \in Nat /\ delivery'[d] \in Nat
             /\ told /\ data[d].proxy /\ data[d].path = handle => delivery'[d] = delivery[d] + 1
  BY <1>1, <1>2 DEF Posted
<1> SUFFICES ASSUME NEW s \in owed
             PROVE  Connected(s)' /\ slots'[s] > 0 /\ UnderWay(s)'
  BY <1>2 DEF OwedUnderWay
<1>4. Connected(s) /\ slots[s] > 0 /\ UnderWay(s) /\ s \in Subscriber
  BY <1>2 DEF PendingIInv, OwedUnderWay
<1> DEFINE d == subscriber[s]
           path == data[d].path
<1>5. path \in monitored /\ data[d].proxy /\ d \in Data
  BY <1>4, ServedHolds
     DEF PendingIInv, ServedIInv, CountedIInv, TypeOK, SlotsServed, UnderWay, Connected, Live
<1>6. ~Miscounted(s)'
  BY <1>2, <1>4 DEF UnderWay, Miscounted
<1>7. UnderWay(s)'
  <2>1. CASE delivery[d] > 0
    <3>1. delivery'[d] > 0
      BY <1>3, <1>5, <2>1
    <3> QED
      BY <1>2, <1>6, <3>1 DEF UnderWay
  <2>2. CASE \E i \in 1 .. Len(notification) : IsPrefix(path, notification[i])
    BY <1>2, <1>6, <2>2 DEF UnderWay
  <2>3. CASE path \in visit.handles /\ IsPrefix(path, visit.key) /\ path # handle
    BY <1>2, <1>6, <2>3 DEF UnderWay
  <2>4. CASE IsPrefix(path, visit.key) /\ path = handle
    <3>1. StartsWith(visit.key, handle)
      BY <1>2, <2>4, PrefixStarts
    <3>2. told
      BY <1>1, <1>5, <2>4, <3>1
    <3>3. delivery'[d] = delivery[d] + 1
      BY <1>3, <1>5, <2>4, <3>2
    <3>4. delivery'[d] > 0
      BY <1>3, <1>5, <3>3
    <3> QED
      BY <1>2, <1>6, <3>4 DEF UnderWay
  <2> QED
    BY <1>4, <2>1, <2>2, <2>3, <2>4 DEF UnderWay
<1> QED
  BY <1>2, <1>4, <1>7 DEF Connected, Live

\* The steps that are about neither subscribers nor the layer's thread.
LEMMA SameUnderWay ==
  ASSUME PendingIInv, UNCHANGED <<subscriber, slots, data, delivery, notification, visit, owed>>
  PROVE  OwedUnderWay'
BY DEF PendingIInv, OwedUnderWay, UnderWay, Miscounted, Connected, Live

LEMMA PendingStep ==
  ASSUME PendingIInv, [Next]_vars
  PROVE  PendingIInv'
<1>1. ServedIInv'
  BY ServedStep DEF PendingIInv
<1> SUFFICES OwedUnderWay'
  BY <1>1 DEF PendingIInv
<1>2. CASE UNCHANGED vars
  BY <1>2, SameUnderWay DEF vars, application, notifying
<1>3. CASE Application
  <2>1. ASSUME NEW s \in Subscriber, NEW argument, NEW filter, Subscribe(s, argument, filter)
        PROVE  OwedUnderWay'
    BY <2>1, SubscribeUnderWay
  <2>2. ASSUME NEW s \in Subscriber, NEW argument, SetPath(s, argument)
        PROVE  OwedUnderWay'
    BY <2>2, SetPathUnderWay
  <2>3. ASSUME NEW s \in Subscriber, CdUp(s)
        PROVE  OwedUnderWay'
    BY <2>2, <2>3 DEF CdUp
  <2>4. ASSUME NEW p \in Publisher, NEW argument, NEW filter, Publish(p, argument, filter)
        PROVE  OwedUnderWay'
    BY <2>4, SameUnderWay DEF Publish, application, notifying
  <2>5. ASSUME NEW p \in Publisher, NEW argument, NEW value, SetValue(p, argument, value)
        PROVE  OwedUnderWay'
    BY <2>5, StoreUnderWay DEF SetValue
  <2>6. ASSUME NEW p \in Publisher, NEW argument, ResetValue(p, argument)
        PROVE  OwedUnderWay'
    BY <2>6, StoreUnderWay DEF ResetValue
  <2>7. ASSUME NEW p \in Publisher, Unpublish(p)
        PROVE  OwedUnderWay'
    BY <2>7, SameUnderWay DEF Unpublish, application, notifying
  <2> QED
    BY <1>3, <2>1, <2>2, <2>3, <2>4, <2>5, <2>6, <2>7, UnsubscribeUnderWay, ConnectSlotUnderWay,
       DisconnectSlotUnderWay, DropSlotsUnderWay, SetPathOfUnderWay
       DEF Application, Cd
<1>4. CASE Elsewhere
  BY <1>4, StoreUnderWay DEF Elsewhere, WriteElsewhere
<1>5. CASE Layer
  BY <1>5, StartNotifyUnderWay, NotifyHandleUnderWay DEF Layer
<1>6. CASE Main
  BY <1>6, DeliverUnderWay DEF Main
<1> QED
  BY <1>2, <1>3, <1>4, <1>5, <1>6 DEF Next

\* And with them, the reports under way.
THEOREM PendingInvariant == Spec => []PendingIInv
<1>1. Init => PendingIInv
  BY ServedInit DEF PendingIInv, OwedUnderWay, Init
<1>2. PendingIInv /\ [Next]_vars => PendingIInv'
  BY PendingStep
<1> QED
  BY <1>1, <1>2, PTL DEF Spec

\* The layer counts a handle exactly as often as data and publishers hold it, for
\* any subscribers, publishers, data and paths, wherever the objects come to lie.
THEOREM HandlesAreCounted == Spec => []HandlesCounted
<1>1. CountedIInv => HandlesCounted
  BY DEF CountedIInv
<1> QED
  BY <1>1, CountedInvariant, PTL

\* The value space stays within its types.
THEOREM SpaceTypeCorrect == Spec => []TypeOK
<1>1. CountedIInv => TypeOK
  BY DEF CountedIInv
<1> QED
  BY <1>1, CountedInvariant, PTL

\* A subscriber with a slot is wired to the proxy of its own data, whose handle is
\* monitored, whatever was connected, shared, moved and destroyed before and wherever
\* it lies, unless its data take it for one that died there and that they still count
\* (qvaluespacesubscriber.cpp 93-470).
THEOREM SlotsAreServed == Spec => []SlotsServed
<1>1. ServedIInv => SlotsServed
  BY ServedHolds
<1> QED
  BY <1>1, ServedInvariant, PTL

\* No change a subscriber has to hear of is lost between the store, the thread of the
\* layer and the subscriber's proxy (gconflayer.cpp 370-420).
THEOREM ChangesAreUnderWay == Spec => []ChangesUnderWay
<1>1. PendingIInv => ChangesUnderWay
  BY DEF PendingIInv, OwedUnderWay, ChangesUnderWay, UnderWay
<1> QED
  BY <1>1, PendingInvariant, PTL
-----------------------------------------------------------------------------
(***************************************************************************)
(* The lock.                                                               *)
(***************************************************************************)
LockIInv == LockTypeOK /\ CountsExact /\ WriterHandover /\ ReaderHandover

\* How the groups of threads change when one thread moves.
LEMMA GroupsFinite ==
  /\ IsFiniteSet(Readers) /\ IsFiniteSet(Writers)
  /\ IsFiniteSet(WaitingToRead) /\ IsFiniteSet(WaitingToWrite)
  /\ IsFiniteSet(AcquiringToRead)
BY LockAssumption, FS_Subset
   DEF Readers, Writers, WaitingToRead, WaitingToWrite, AcquiringToRead

LEMMA Groups ==
  ASSUME LockTypeOK, NEW p \in Proc, NEW place \in Places, Move(p, place)
  PROVE  /\ Readers' = IF place = "reading" THEN Readers \cup {p} ELSE Readers \ {p}
         /\ Writers' = IF place = "writing" THEN Writers \cup {p} ELSE Writers \ {p}
         /\ WaitingToRead' = IF place \in {"readWait", "readWoken"}
                             THEN WaitingToRead \cup {p} ELSE WaitingToRead \ {p}
         /\ WaitingToWrite' = IF place \in {"writeWait", "writeWoken"}
                              THEN WaitingToWrite \cup {p} ELSE WaitingToWrite \ {p}
         /\ AcquiringToRead' = IF place = "readWait"
                               THEN AcquiringToRead \cup {p} ELSE AcquiringToRead \ {p}
         /\ at' \in [Proc -> Places]
BY DEF LockTypeOK, Move, Readers, Writers, WaitingToRead, WaitingToWrite, AcquiringToRead

LEMMA CardAdd ==
  ASSUME NEW S, IsFiniteSet(S), NEW x, x \notin S
  PROVE  Cardinality(S \cup {x}) = Cardinality(S) + 1 /\ Cardinality(S) \in Nat
BY FS_AddElement, FS_CardinalityType

LEMMA CardRemove ==
  ASSUME NEW S, IsFiniteSet(S), NEW x \in S
  PROVE  Cardinality(S \ {x}) = Cardinality(S) - 1 /\ Cardinality(S) \in Nat \ {0}
BY FS_RemoveElement, FS_CardinalityType, FS_EmptySet

\* What the counts say about who holds the lock.
LEMMA WhoHolds ==
  ASSUME LockTypeOK, CountsExact
  PROVE  /\ accessCount < 0 <=> Writers # {}
         /\ accessCount = 0 <=> Writers = {} /\ Readers = {}
         /\ accessCount > 0 => Writers = {} /\ Readers # {}
         /\ waitingWriters = 0 <=> WaitingToWrite = {}
BY GroupsFinite, FS_EmptySet, FS_CardinalityType DEF LockTypeOK, CountsExact
-----------------------------------------------------------------------------
LEMMA LockForReadPreserves ==
  ASSUME LockIInv, NEW p \in Proc, LockForRead(p)
  PROVE  LockIInv'
<1> USE DEF LockIInv
<1>0. LockTypeOK /\ at[p] = "out" /\ UNCHANGED <<readerWait, writerWait>>
  BY DEF LockForRead
<1>1. /\ p \notin Readers /\ p \notin Writers /\ p \notin WaitingToRead
      /\ p \notin WaitingToWrite /\ p \notin AcquiringToRead
  BY <1>0 DEF Readers, Writers, WaitingToRead, WaitingToWrite, AcquiringToRead
<1>2. CASE ReadersBlocked
  <2>1. /\ waitingReaders' = waitingReaders + 1 /\ Move(p, "readWait")
        /\ UNCHANGED <<accessCount, waitingWriters>>
    BY <1>2 DEF LockForRead
  <2>0. /\ Readers' = Readers \ {p} /\ Writers' = Writers \ {p}
        /\ WaitingToRead' = WaitingToRead \cup {p} /\ WaitingToWrite' = WaitingToWrite \ {p}
        /\ at' \in [Proc -> Places]
    BY <1>0, <2>1, Groups DEF Places
  <2>2. /\ Readers' = Readers /\ Writers' = Writers
        /\ WaitingToRead' = WaitingToRead \cup {p} /\ WaitingToWrite' = WaitingToWrite
        /\ at' \in [Proc -> Places]
    BY <1>1, <2>0
  <2>3. Cardinality(WaitingToRead') = Cardinality(WaitingToRead) + 1
    BY <1>1, <2>2, GroupsFinite, CardAdd
  <2>4. LockTypeOK'
    BY <1>0, <2>1, <2>2 DEF LockTypeOK
  <2>5. CountsExact'
    BY <2>1, <2>2, <2>3 DEF CountsExact
  <2>6. WriterHandover'
    BY <1>0, <2>1, <1>2 DEF WriterHandover, Move, LockTypeOK
  <2>7. ReaderHandover'
    BY <1>2, <2>1 DEF ReaderHandover, ReadersBlocked, LockTypeOK
  <2> QED
    BY <2>4, <2>5, <2>6, <2>7
<1>3. CASE ~ReadersBlocked
  <2>1. /\ accessCount' = accessCount + 1 /\ Move(p, "reading")
        /\ UNCHANGED <<waitingReaders, waitingWriters>>
    BY <1>3 DEF LockForRead
  <2>0. /\ Readers' = Readers \cup {p} /\ Writers' = Writers \ {p}
        /\ WaitingToRead' = WaitingToRead \ {p} /\ WaitingToWrite' = WaitingToWrite \ {p}
        /\ AcquiringToRead' = AcquiringToRead \ {p} /\ at' \in [Proc -> Places]
    BY <1>0, <2>1, Groups DEF Places
  <2>2. /\ Readers' = Readers \cup {p} /\ Writers' = Writers
        /\ WaitingToRead' = WaitingToRead /\ WaitingToWrite' = WaitingToWrite
        /\ AcquiringToRead' = AcquiringToRead /\ at' \in [Proc -> Places]
    BY <1>1, <2>0
  <2>3. Cardinality(Readers') = Cardinality(Readers) + 1
    BY <1>1, <2>2, GroupsFinite, CardAdd
  <2>4. LockTypeOK'
    BY <1>0, <2>1, <2>2 DEF LockTypeOK
  <2>5. Writers = {}
    BY <1>3, WhoHolds DEF ReadersBlocked
  <2>6. CountsExact'
    BY <2>1, <2>2, <2>3, <2>5 DEF CountsExact
  <2>7. WriterHandover'
    BY <1>3, <2>1 DEF WriterHandover, ReadersBlocked, LockTypeOK
  <2>8. ReaderHandover'
    BY <1>0, <1>3, <2>1, <2>2 DEF ReaderHandover, ReadersBlocked, LockTypeOK
  <2> QED
    BY <2>4, <2>6, <2>7, <2>8
<1> QED
  BY <1>2, <1>3

LEMMA WakeReaderPreserves ==
  ASSUME LockIInv, NEW p \in Proc, WakeReader(p)
  PROVE  LockIInv'
<1> USE DEF LockIInv
<1>1. /\ LockTypeOK /\ at[p] = "readWait" /\ readerWait > 0 /\ readerWait' = readerWait - 1
      /\ Move(p, "readWoken") /\ UNCHANGED <<counts, writerWait>>
  BY DEF WakeReader
<1>2. p \in AcquiringToRead /\ p \in WaitingToRead /\ p \notin Readers
      /\ p \notin Writers /\ p \notin WaitingToWrite
  BY <1>1 DEF Readers, Writers, WaitingToRead, WaitingToWrite, AcquiringToRead
<1>3. /\ Readers' = Readers /\ Writers' = Writers
      /\ WaitingToRead' = WaitingToRead /\ WaitingToWrite' = WaitingToWrite
      /\ AcquiringToRead' = AcquiringToRead \ {p} /\ at' \in [Proc -> Places]
  <2>1. /\ Readers' = Readers \ {p} /\ Writers' = Writers \ {p}
        /\ WaitingToRead' = WaitingToRead \cup {p} /\ WaitingToWrite' = WaitingToWrite \ {p}
        /\ AcquiringToRead' = AcquiringToRead \ {p} /\ at' \in [Proc -> Places]
    BY <1>1, Groups DEF Places
  <2> QED
    BY <1>2, <2>1
<1>4. Cardinality(AcquiringToRead') = Cardinality(AcquiringToRead) - 1
      /\ Cardinality(AcquiringToRead) \in Nat
  BY <1>2, <1>3, GroupsFinite, CardRemove
<1>5. LockTypeOK'
  BY <1>1, <1>3 DEF LockTypeOK, counts
<1>6. CountsExact'
  BY <1>1, <1>3 DEF CountsExact, counts
<1>7. WriterHandover'
  BY <1>1 DEF WriterHandover, counts, Move, LockTypeOK
<1>8. ReaderHandover'
  BY <1>1, <1>4 DEF ReaderHandover, counts, LockTypeOK
<1> QED
  BY <1>5, <1>6, <1>7, <1>8

LEMMA RetryReadPreserves ==
  ASSUME LockIInv, NEW p \in Proc, RetryRead(p)
  PROVE  LockIInv'
<1> USE DEF LockIInv
<1>0. LockTypeOK /\ at[p] = "readWoken" /\ UNCHANGED <<readerWait, writerWait>>
  BY DEF RetryRead
<1>1. /\ p \notin Readers /\ p \notin Writers /\ p \in WaitingToRead
      /\ p \notin WaitingToWrite /\ p \notin AcquiringToRead
  BY <1>0 DEF Readers, Writers, WaitingToRead, WaitingToWrite, AcquiringToRead
<1>2. CASE ReadersBlocked
  <2>1. Move(p, "readWait") /\ UNCHANGED counts
    BY <1>2 DEF RetryRead
  <2>2. /\ Readers' = Readers /\ Writers' = Writers
        /\ WaitingToRead' = WaitingToRead /\ WaitingToWrite' = WaitingToWrite
        /\ at' \in [Proc -> Places]
    <3>1. /\ Readers' = Readers \ {p} /\ Writers' = Writers \ {p}
          /\ WaitingToRead' = WaitingToRead \cup {p}
          /\ WaitingToWrite' = WaitingToWrite \ {p} /\ at' \in [Proc -> Places]
      BY <1>0, <2>1, Groups DEF Places
    <3> QED
      BY <1>1, <3>1
  <2>3. LockTypeOK' /\ CountsExact'
    BY <1>0, <2>1, <2>2 DEF LockTypeOK, CountsExact, counts
  <2>4. WriterHandover'
    BY <1>0, <2>1 DEF WriterHandover, Move, LockTypeOK, counts
  <2>5. ReaderHandover'
    BY <1>2, <2>1 DEF ReaderHandover, ReadersBlocked, LockTypeOK, counts
  <2> QED
    BY <2>3, <2>4, <2>5
<1>3. CASE ~ReadersBlocked
  <2>1. /\ waitingReaders' = waitingReaders - 1 /\ accessCount' = accessCount + 1
        /\ Move(p, "reading") /\ UNCHANGED waitingWriters
    BY <1>3 DEF RetryRead
  <2>2. /\ Readers' = Readers \cup {p} /\ Writers' = Writers
        /\ WaitingToRead' = WaitingToRead \ {p} /\ WaitingToWrite' = WaitingToWrite
        /\ AcquiringToRead' = AcquiringToRead /\ at' \in [Proc -> Places]
    <3>1. /\ Readers' = Readers \cup {p} /\ Writers' = Writers \ {p}
          /\ WaitingToRead' = WaitingToRead \ {p} /\ WaitingToWrite' = WaitingToWrite \ {p}
          /\ AcquiringToRead' = AcquiringToRead \ {p} /\ at' \in [Proc -> Places]
      BY <1>0, <2>1, Groups DEF Places
    <3> QED
      BY <1>1, <3>1
  <2>3. Cardinality(Readers') = Cardinality(Readers) + 1
    BY <1>1, <2>2, GroupsFinite, CardAdd
  <2>4. /\ Cardinality(WaitingToRead') = Cardinality(WaitingToRead) - 1
        /\ Cardinality(WaitingToRead) \in Nat \ {0}
    BY <1>1, <2>2, GroupsFinite, CardRemove
  <2>5. LockTypeOK'
    BY <1>0, <2>1, <2>2, <2>4 DEF LockTypeOK, CountsExact
  <2>6. Writers = {}
    BY <1>3, WhoHolds DEF ReadersBlocked
  <2>7. CountsExact'
    BY <2>1, <2>2, <2>3, <2>4, <2>6 DEF CountsExact
  <2>8. WriterHandover'
    BY <1>3, <2>1 DEF WriterHandover, ReadersBlocked, LockTypeOK
  <2>9. ReaderHandover'
    BY <1>0, <1>3, <2>1, <2>2 DEF ReaderHandover, ReadersBlocked, LockTypeOK
  <2> QED
    BY <2>5, <2>7, <2>8, <2>9
<1> QED
  BY <1>2, <1>3

LEMMA LockForWritePreserves ==
  ASSUME LockIInv, NEW p \in Proc, LockForWrite(p)
  PROVE  LockIInv'
<1> USE DEF LockIInv
<1>0. LockTypeOK /\ at[p] = "out" /\ UNCHANGED <<readerWait, writerWait>>
  BY DEF LockForWrite
<1>1. /\ p \notin Readers /\ p \notin Writers /\ p \notin WaitingToRead
      /\ p \notin WaitingToWrite
  BY <1>0 DEF Readers, Writers, WaitingToRead, WaitingToWrite
<1>2. CASE WritersBlocked
  <2>1. /\ waitingWriters' = waitingWriters + 1 /\ Move(p, "writeWait")
        /\ UNCHANGED <<accessCount, waitingReaders>>
    BY <1>2 DEF LockForWrite
  <2>2. /\ Readers' = Readers /\ Writers' = Writers
        /\ WaitingToRead' = WaitingToRead /\ WaitingToWrite' = WaitingToWrite \cup {p}
        /\ at' \in [Proc -> Places]
    <3>1. /\ Readers' = Readers \ {p} /\ Writers' = Writers \ {p}
          /\ WaitingToRead' = WaitingToRead \ {p} /\ WaitingToWrite' = WaitingToWrite \cup {p}
          /\ at' \in [Proc -> Places]
      BY <1>0, <2>1, Groups DEF Places
    <3> QED
      BY <1>1, <3>1
  <2>3. Cardinality(WaitingToWrite') = Cardinality(WaitingToWrite) + 1
    BY <1>1, <2>2, GroupsFinite, CardAdd
  <2>4. LockTypeOK'
    BY <1>0, <2>1, <2>2 DEF LockTypeOK
  <2>5. CountsExact'
    BY <2>1, <2>2, <2>3 DEF CountsExact
  <2>6. WriterHandover' /\ ReaderHandover'
    BY <1>0, <1>2, <2>1 DEF WriterHandover, ReaderHandover, WritersBlocked, LockTypeOK
  <2> QED
    BY <2>4, <2>5, <2>6
<1>3. CASE ~WritersBlocked
  <2>1. /\ accessCount' = accessCount - 1 /\ Move(p, "writing")
        /\ UNCHANGED <<waitingReaders, waitingWriters>>
    BY <1>3 DEF LockForWrite
  <2>2. /\ Readers' = Readers /\ Writers' = Writers \cup {p}
        /\ WaitingToRead' = WaitingToRead /\ WaitingToWrite' = WaitingToWrite
        /\ at' \in [Proc -> Places]
    <3>1. /\ Readers' = Readers \ {p} /\ Writers' = Writers \cup {p}
          /\ WaitingToRead' = WaitingToRead \ {p} /\ WaitingToWrite' = WaitingToWrite \ {p}
          /\ at' \in [Proc -> Places]
      BY <1>0, <2>1, Groups DEF Places
    <3> QED
      BY <1>1, <3>1
  <2>3. accessCount = 0 /\ Writers = {} /\ Readers = {}
    BY <1>3, WhoHolds DEF WritersBlocked
  <2>4. Cardinality(Writers') = 1
    BY <2>2, <2>3, FS_Singleton
  <2>5. LockTypeOK'
    BY <1>0, <2>1, <2>2 DEF LockTypeOK
  <2>6. CountsExact'
    BY <2>1, <2>2, <2>3, <2>4 DEF CountsExact
  <2>7. WriterHandover' /\ ReaderHandover'
    BY <2>1, <2>3 DEF WriterHandover, ReaderHandover
  <2> QED
    BY <2>5, <2>6, <2>7
<1> QED
  BY <1>2, <1>3

LEMMA WakeWriterPreserves ==
  ASSUME LockIInv, NEW p \in Proc, WakeWriter(p)
  PROVE  LockIInv'
<1> USE DEF LockIInv
<1>1. /\ LockTypeOK /\ at[p] = "writeWait" /\ writerWait > 0 /\ writerWait' = writerWait - 1
      /\ Move(p, "writeWoken") /\ UNCHANGED <<counts, readerWait>>
  BY DEF WakeWriter
<1>2. /\ p \in WaitingToWrite /\ p \notin Readers /\ p \notin Writers
      /\ p \notin WaitingToRead /\ p \notin AcquiringToRead
  BY <1>1 DEF Readers, Writers, WaitingToRead, WaitingToWrite, AcquiringToRead
<1>3. /\ Readers' = Readers /\ Writers' = Writers
      /\ WaitingToRead' = WaitingToRead /\ WaitingToWrite' = WaitingToWrite
      /\ AcquiringToRead' = AcquiringToRead /\ at' \in [Proc -> Places]
  <2>1. /\ Readers' = Readers \ {p} /\ Writers' = Writers \ {p}
        /\ WaitingToRead' = WaitingToRead \ {p} /\ WaitingToWrite' = WaitingToWrite \cup {p}
        /\ AcquiringToRead' = AcquiringToRead \ {p} /\ at' \in [Proc -> Places]
    BY <1>1, Groups DEF Places
  <2> QED
    BY <1>2, <2>1
<1>4. LockTypeOK'
  BY <1>1, <1>3 DEF LockTypeOK, counts
<1>5. CountsExact' /\ ReaderHandover'
  BY <1>1, <1>3 DEF CountsExact, ReaderHandover, counts
<1>6. at'[p] = "writeWoken"
  BY <1>1 DEF Move, LockTypeOK
<1>7. WriterHandover'
  BY <1>6 DEF WriterHandover
<1> QED
  BY <1>4, <1>5, <1>7

LEMMA RetryWritePreserves ==
  ASSUME LockIInv, NEW p \in Proc, RetryWrite(p)
  PROVE  LockIInv'
<1> USE DEF LockIInv
<1>0. LockTypeOK /\ at[p] = "writeWoken" /\ UNCHANGED <<readerWait, writerWait>>
  BY DEF RetryWrite
<1>1. /\ p \notin Readers /\ p \notin Writers /\ p \notin WaitingToRead
      /\ p \in WaitingToWrite /\ p \notin AcquiringToRead
  BY <1>0 DEF Readers, Writers, WaitingToRead, WaitingToWrite, AcquiringToRead
<1>2. CASE WritersBlocked
  <2>1. Move(p, "writeWait") /\ UNCHANGED counts
    BY <1>2 DEF RetryWrite
  <2>0. /\ Readers' = Readers \ {p} /\ Writers' = Writers \ {p}
        /\ WaitingToRead' = WaitingToRead \ {p} /\ WaitingToWrite' = WaitingToWrite \cup {p}
        /\ AcquiringToRead' = AcquiringToRead \ {p} /\ at' \in [Proc -> Places]
    BY <1>0, <2>1, Groups DEF Places
  <2>2. /\ Readers' = Readers /\ Writers' = Writers
        /\ WaitingToRead' = WaitingToRead /\ WaitingToWrite' = WaitingToWrite
        /\ AcquiringToRead' = AcquiringToRead /\ at' \in [Proc -> Places]
    BY <1>1, <2>0
  <2>3. LockTypeOK' /\ CountsExact' /\ ReaderHandover'
    BY <1>0, <2>1, <2>2 DEF LockTypeOK, CountsExact, ReaderHandover, counts
  <2>4. WriterHandover'
    BY <1>2, <2>1 DEF WriterHandover, WritersBlocked, counts
  <2> QED
    BY <2>3, <2>4
<1>3. CASE ~WritersBlocked
  <2>1. /\ waitingWriters' = waitingWriters - 1 /\ accessCount' = accessCount - 1
        /\ Move(p, "writing") /\ UNCHANGED waitingReaders
    BY <1>3 DEF RetryWrite
  <2>2. /\ Readers' = Readers /\ Writers' = Writers \cup {p}
        /\ WaitingToRead' = WaitingToRead /\ WaitingToWrite' = WaitingToWrite \ {p}
        /\ at' \in [Proc -> Places]
    <3>1. /\ Readers' = Readers \ {p} /\ Writers' = Writers \cup {p}
          /\ WaitingToRead' = WaitingToRead \ {p} /\ WaitingToWrite' = WaitingToWrite \ {p}
          /\ at' \in [Proc -> Places]
      BY <1>0, <2>1, Groups DEF Places
    <3> QED
      BY <1>1, <3>1
  <2>3. accessCount = 0 /\ Writers = {} /\ Readers = {}
    BY <1>3, WhoHolds DEF WritersBlocked
  <2>4. Cardinality(Writers') = 1
    BY <2>2, <2>3, FS_Singleton
  <2>5. /\ Cardinality(WaitingToWrite') = Cardinality(WaitingToWrite) - 1
        /\ Cardinality(WaitingToWrite) \in Nat \ {0}
    BY <1>1, <2>2, GroupsFinite, CardRemove
  <2>6. LockTypeOK'
    BY <1>0, <2>1, <2>2, <2>5 DEF LockTypeOK, CountsExact
  <2>7. CountsExact'
    BY <2>1, <2>2, <2>3, <2>4, <2>5 DEF CountsExact
  <2>8. WriterHandover' /\ ReaderHandover'
    BY <2>1, <2>3 DEF WriterHandover, ReaderHandover
  <2> QED
    BY <2>6, <2>7, <2>8
<1> QED
  BY <1>2, <1>3

LEMMA UnlockPreserves ==
  ASSUME LockIInv, NEW p \in Proc, Unlock(p)
  PROVE  LockIInv'
<1> USE DEF LockIInv
<1>1. /\ LockTypeOK /\ at[p] \in {"reading", "writing"}
      /\ accessCount' = IF accessCount > 0 THEN accessCount - 1 ELSE accessCount + 1
      /\ IF accessCount' = 0 THEN Handover ELSE UNCHANGED <<readerWait, writerWait>>
      /\ Move(p, "out") /\ UNCHANGED <<waitingReaders, waitingWriters>>
  BY DEF Unlock
<1>2. /\ p \notin WaitingToRead /\ p \notin WaitingToWrite /\ p \notin AcquiringToRead
      /\ at[p] = "reading" => p \in Readers /\ p \notin Writers
      /\ at[p] = "writing" => p \in Writers /\ p \notin Readers
  BY <1>1 DEF Readers, Writers, WaitingToRead, WaitingToWrite, AcquiringToRead
<1>3. /\ Readers' = Readers \ {p} /\ Writers' = Writers \ {p}
      /\ WaitingToRead' = WaitingToRead /\ WaitingToWrite' = WaitingToWrite
      /\ AcquiringToRead' = AcquiringToRead /\ at' \in [Proc -> Places]
  BY <1>1, <1>2, Groups DEF Places
<1>4. readerWait' \in Nat /\ writerWait' \in Nat
  BY <1>1 DEF LockTypeOK, Handover
<1>5. LockTypeOK'
  BY <1>1, <1>3, <1>4 DEF LockTypeOK
<1>6. CASE at[p] = "reading"
  <2>1. Writers = {} /\ accessCount = Cardinality(Readers)
    BY <1>2, <1>6 DEF CountsExact
  <2>2. /\ Cardinality(Readers') = Cardinality(Readers) - 1
        /\ Cardinality(Readers) \in Nat \ {0}
    BY <1>2, <1>3, <1>6, GroupsFinite, CardRemove
  <2>3. accessCount' = Cardinality(Readers') /\ Writers' = {}
    BY <1>1, <1>3, <2>1, <2>2
  <2>4. CountsExact'
    BY <1>1, <1>3, <2>3 DEF CountsExact
  <2>5. WriterHandover'
    BY <1>1, <1>4, <2>1, <2>2 DEF WriterHandover, Handover, LockTypeOK
  <2>6. ReaderHandover'
    <3>1. CASE accessCount' = 0
      <4>1. AcquiringToRead \subseteq WaitingToRead
        BY DEF AcquiringToRead, WaitingToRead
      <4>2. Cardinality(AcquiringToRead) <= waitingReaders
        BY <4>1, GroupsFinite, FS_Subset DEF CountsExact
      <4>3. Cardinality(AcquiringToRead) \in Nat
        BY GroupsFinite, FS_CardinalityType
      <4> QED
        BY <1>1, <1>3, <3>1, <4>2, <4>3 DEF ReaderHandover, Handover, LockTypeOK
    <3>2. CASE accessCount' # 0
      BY <1>1, <1>3, <2>1, <2>2, <3>2 DEF ReaderHandover, LockTypeOK
    <3> QED
      BY <3>1, <3>2
  <2> QED
    BY <1>5, <2>4, <2>5, <2>6
<1>7. CASE at[p] = "writing"
  <2>1. accessCount = -1 /\ Readers = {} /\ Cardinality(Writers) = 1
    BY <1>2, <1>7 DEF CountsExact
  <2>2. Writers = {p}
    BY <1>2, <1>7, <2>1, GroupsFinite, FS_Singleton
  <2>3. accessCount' = 0 /\ Writers' = {} /\ Readers' = {}
    BY <1>1, <1>3, <2>1, <2>2
  <2>4. CountsExact'
    BY <1>1, <1>3, <2>3, FS_EmptySet DEF CountsExact
  <2>5. WriterHandover'
    BY <1>1, <1>4, <2>3 DEF WriterHandover, Handover, LockTypeOK
  <2>6. ReaderHandover'
    <3>1. AcquiringToRead \subseteq WaitingToRead
      BY DEF AcquiringToRead, WaitingToRead
    <3>2. Cardinality(AcquiringToRead) <= waitingReaders
      BY <3>1, GroupsFinite, FS_Subset DEF CountsExact
    <3>3. Cardinality(AcquiringToRead) \in Nat
      BY GroupsFinite, FS_CardinalityType
    <3> QED
      BY <1>1, <1>3, <2>3, <3>2, <3>3 DEF ReaderHandover, Handover, LockTypeOK
  <2> QED
    BY <1>5, <2>4, <2>5, <2>6
<1> QED
  BY <1>1, <1>6, <1>7
-----------------------------------------------------------------------------
LEMMA LockInitEstablishes == LockInit => LockIInv
<1> SUFFICES ASSUME LockInit PROVE LockIInv
  OBVIOUS
<1>1. /\ Readers = {} /\ Writers = {} /\ WaitingToRead = {} /\ WaitingToWrite = {}
      /\ AcquiringToRead = {}
  BY DEF LockInit, Readers, Writers, WaitingToRead, WaitingToWrite, AcquiringToRead
<1>2. LockTypeOK
  BY DEF LockInit, LockTypeOK, Places
<1>3. CountsExact /\ WriterHandover /\ ReaderHandover
  BY <1>1, FS_EmptySet DEF LockInit, CountsExact, WriterHandover, ReaderHandover
<1> QED
  BY <1>2, <1>3 DEF LockIInv

LEMMA LockStepPreserves == LockIInv /\ [LockNext]_lockVars => LockIInv'
<1> SUFFICES ASSUME LockIInv, [LockNext]_lockVars PROVE LockIInv'
  OBVIOUS
<1>1. ASSUME NEW p \in Proc, LockForRead(p) \/ LockForWrite(p) \/ Proceed(p)
      PROVE  LockIInv'
  BY <1>1, LockForReadPreserves, LockForWritePreserves, WakeReaderPreserves,
     RetryReadPreserves, WakeWriterPreserves, RetryWritePreserves, UnlockPreserves
     DEF Proceed
<1>2. CASE UNCHANGED lockVars
  BY <1>2 DEF lockVars, counts, LockIInv, LockTypeOK, CountsExact, WriterHandover, ReaderHandover,
              Readers, Writers, WaitingToRead, WaitingToWrite, AcquiringToRead
<1> QED
  BY <1>1, <1>2 DEF LockNext

LEMMA LockInvariance == LockSpec => []LockIInv
BY LockInitEstablishes, LockStepPreserves, PTL DEF LockSpec

\* The variables keep their types; waitingReaders and waitingWriters, which are
\* unsigned in the code, never wrap below zero.
THEOREM LockTypes == LockSpec => []LockTypeOK
<1>1. LockIInv => LockTypeOK
  BY DEF LockIInv
<1> QED
  BY LockInvariance, <1>1, PTL

\* The shared counts are exact, so readers and a writer exclude one another.
THEOREM LockCounts == LockSpec => []CountsExact
<1>1. LockIInv => CountsExact
  BY DEF LockIInv
<1> QED
  BY LockInvariance, <1>1, PTL

\* unlock loses no writer's wake-up.
THEOREM WritersHandedOver == LockSpec => []WriterHandover
<1>1. LockIInv => WriterHandover
  BY DEF LockIInv
<1> QED
  BY LockInvariance, <1>1, PTL

\* unlock loses no reader's wake-up.
THEOREM ReadersHandedOver == LockSpec => []ReaderHandover
<1>1. LockIInv => ReaderHandover
  BY DEF LockIInv
<1> QED
  BY LockInvariance, <1>1, PTL
-----------------------------------------------------------------------------
\* A step of a thread acquires or releases the abstract lock, or does nothing to
\* it.
LEMMA StepRefines ==
  ASSUME LockIInv, [LockNext]_lockVars
  PROVE  [Lock!Next]_<<Readers, Writers>>
<1> USE DEF LockIInv
<1>1. CASE UNCHANGED lockVars
  BY <1>1 DEF lockVars, Readers, Writers
<1>2. ASSUME NEW p \in Proc, at[p] \notin {"reading", "writing"}, Move(p, "reading"),
             ~ReadersBlocked
      PROVE  Lock!AcquireRead(p)
  <2>1. /\ Readers' = Readers \cup {p} /\ Writers' = Writers \ {p}
        /\ p \notin Readers /\ p \notin Writers
    BY <1>2, Groups DEF Places, Readers, Writers
  <2>2. Writers = {}
    BY <1>2, WhoHolds DEF ReadersBlocked
  <2> QED
    BY <2>1, <2>2 DEF Lock!AcquireRead
<1>3. ASSUME NEW p \in Proc, at[p] \notin {"reading", "writing"}, Move(p, "writing"),
             ~WritersBlocked
      PROVE  Lock!AcquireWrite(p)
  <2>1. /\ Readers' = Readers \ {p} /\ Writers' = Writers \cup {p} /\ p \notin Readers
    BY <1>3, Groups DEF Places, Readers, Writers
  <2>2. Writers = {} /\ Readers = {}
    BY <1>3, WhoHolds DEF WritersBlocked
  <2> QED
    BY <2>1, <2>2 DEF Lock!AcquireWrite
<1>4. ASSUME NEW p \in Proc, Unlock(p)
      PROVE  Lock!Release(p)
  <2>1. at[p] \in {"reading", "writing"} /\ Move(p, "out")
    BY <1>4 DEF Unlock
  <2>2. Readers' = Readers \ {p} /\ Writers' = Writers \ {p} /\ p \in Readers \cup Writers
    BY <2>1, Groups DEF Places, Readers, Writers
  <2> QED
    BY <2>2 DEF Lock!Release
<1>5. ASSUME NEW p \in Proc, NEW place \in Places \ {"reading", "writing"},
             at[p] \notin {"reading", "writing"}, Move(p, place)
      PROVE  UNCHANGED <<Readers, Writers>>
  BY <1>5, Groups DEF Readers, Writers
<1>6. ASSUME NEW p \in Proc, LockForRead(p) \/ RetryRead(p)
      PROVE  Lock!AcquireRead(p) \/ UNCHANGED <<Readers, Writers>>
  BY <1>6, <1>2, <1>5 DEF LockForRead, RetryRead, Places
<1>7. ASSUME NEW p \in Proc, LockForWrite(p) \/ RetryWrite(p)
      PROVE  Lock!AcquireWrite(p) \/ UNCHANGED <<Readers, Writers>>
  BY <1>7, <1>3, <1>5 DEF LockForWrite, RetryWrite, Places
<1>8. ASSUME NEW p \in Proc, WakeReader(p) \/ WakeWriter(p)
      PROVE  UNCHANGED <<Readers, Writers>>
  BY <1>8, <1>5 DEF WakeReader, WakeWriter, Places
<1> QED
  BY <1>1, <1>4, <1>6, <1>7, <1>8 DEF LockNext, Proceed, Lock!Next

\* Locking through the counts and semaphores implements the abstract lock.
THEOREM LockImplemented == LockSpec => ImplementsLock
<1>1. LockInit => Lock!Init
  BY DEF LockInit, Lock!Init, Readers, Writers
<1>2. LockIInv /\ [LockNext]_lockVars => [Lock!Next]_<<Readers, Writers>>
  BY StepRefines
<1> QED
  BY <1>1, <1>2, LockInvariance, PTL DEF LockSpec, ImplementsLock, Lock!Spec
=============================================================================
