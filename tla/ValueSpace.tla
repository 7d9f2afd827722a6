------------------------------- MODULE ValueSpace -------------------------------
(***************************************************************************)
(* The value space of a process on Linux: QValueSpaceSubscriber and the    *)
(* data that subscribers share, QValueSpacePublisher, and the one layer    *)
(* there is, GConfLayer, with the GConf items it reads and writes.         *)
(*                                                                         *)
(* A path is the sequence of the names in it, the root the empty one.  A   *)
(* handle is the path it is for, for the layer keeps one handle a path and *)
(* counts its holders.  Three threads of control share the state: the      *)
(* application, GConf's notifications, and the layer's own thread, which   *)
(* goes through the monitored handles without the layer's mutex.           *)
(***************************************************************************)
EXTENDS Naturals, Sequences, FiniteSets, SequencesExt

CONSTANTS
  Subscriber, Publisher,
  Data, NoData,       \* what QValueSpaceSubscriberPrivate objects there may be
  Key,                \* the paths of the store
  NameStarts,         \* NameStarts[m, n]: the name m starts with n
  PathArgument,       \* the paths an application gives, "" between two slashes
  Filter,             \* layer options and identifiers it gives
  Value,              \* what it publishes, a record with the kind of QVariant
  MaxSlots, MaxWrites \* bounds of what the application does

Unset == [kind |-> "Invalid", content |-> "none"]

ASSUME SpaceAssumption ==
  /\ IsFiniteSet(Data) /\ NoData \notin Data
  /\ IsFiniteSet(Key) /\ Key \subseteq Seq(STRING)
  /\ \A k \in Key : \A i \in 1 .. Len(k) : NameStarts[<<k[i], k[i]>>]
  /\ MaxSlots \in Nat

VARIABLES
  store,              \* GConf's database, which other processes write too
  subscriber,         \* the d pointer of each subscriber
  slots,              \* the connections of its signal contentsChanged
  data,               \* the shared data and their connection counts, kept by address:
                      \* haunted are those where a subscriber died and is still
                      \* counted (history)
  delivery,           \* handleChanged events posted to the proxy of each
  refCount,           \* GConfLayer::m_handles
  monitored,          \* m_monitoringHandles
  publisher,          \* the path each publisher holds a handle of
  published,          \* handles ever taken by publishers (history)
  notification,       \* changed keys on their way to the layer's thread
  visit,              \* the key notifyChanged is at, the handles left to it
  writes,             \* how often the store changed (bounds the model)
  owed                \* subscribers with a change still to report (history)

application == <<subscriber, slots, data, delivery>>
layer == <<refCount, monitored>>
publishers == <<publisher, published>>
notifying == <<notification, visit>>
vars == <<store, application, layer, publishers, notifying, writes, owed>>

Idle == [key |-> <<>>, handles |-> {}]
NoCounts == [s \in Subscriber |-> 0]
Unused == [path |-> <<>>, used |-> FALSE, connected |-> FALSE, proxy |-> FALSE,
           count |-> NoCounts, wired |-> {}, haunted |-> {}]

Record == [path : Key \cup {Unused.path}, used : BOOLEAN, connected : BOOLEAN, proxy : BOOLEAN,
           count : [Subscriber -> Nat], wired : SUBSET Subscriber, haunted : SUBSET Subscriber]

TypeOK ==
  /\ store \in [Key -> Value \cup {Unset} \cup {[kind |-> "String", content |-> v] : v \in Value}]
  /\ subscriber \in [Subscriber -> Data \cup {NoData}]
  /\ slots \in [Subscriber -> 0 .. MaxSlots]
  /\ data \in [Data -> Record]
  /\ delivery \in [Data -> Nat]
  /\ refCount \in [Key -> Nat] /\ published \in [Key -> Nat]
  /\ monitored \subseteq Key
  /\ publisher \in [Publisher -> Key \cup {<<"none">>, <<"gone">>}]
  /\ notification \in Seq(Key)
  /\ visit.key \in Seq(STRING) /\ visit.handles \subseteq Key
  /\ owed \subseteq Subscriber

Init ==
  /\ store = [k \in Key |-> Unset]
  /\ subscriber = [s \in Subscriber |-> NoData]
  /\ slots = NoCounts
  /\ data = [d \in Data |-> Unused]
  /\ delivery = [d \in Data |-> 0]
  /\ refCount = [k \in Key |-> 0] /\ monitored = {}
  /\ publisher = [p \in Publisher |-> <<"none">>]
  /\ published = [k \in Key |-> 0]
  /\ notification = <<>> /\ visit = Idle
  /\ writes = 0 /\ owed = {}
-----------------------------------------------------------------------------
(***************************************************************************)
(* Paths, filters and values.                                              *)
(***************************************************************************)
Canonical(path) == SelectSeq(path, LAMBDA name : name # "")

\* Mutant: only the handle of the key itself is told.
SameKey(key, path) == key = path

\* key.startsWith(path), of the strings: the last name of path may go on in key.
StartsWith(key, path) ==
  \/ path = <<>>
  \/ /\ Len(path) <= Len(key)
     /\ Front(path) = SubSeq(key, 1, Len(path) - 1)
     /\ NameStarts[<<key[Len(path)], Last(path)>>]

Below(path) == {k \in Key : IsPrefix(path, k)}

LayerOptions == {"Permanent", "Writable"}
Contradictory(filter) ==
  {"Permanent", "Transient"} \subseteq filter \/ {"Writable", "ReadOnly"} \subseteq filter
SubscriberMatches(filter) ==
  ~Contradictory(filter) /\ (filter = {} \/ filter \cap LayerOptions # {})
PublisherMatches(filter) == ~Contradictory(filter) /\ filter \subseteq LayerOptions

\* What setValue makes of a value and GConf stores; a list of several types is
\* converted to nothing, which unsets the key.
Native == {"Bool", "Int", "Double", "String", "StringList", "List"}
Stored(value) ==
  CASE value.kind \in {"Invalid", "MixedList"} -> Unset
    [] value.kind \in Native -> value
    [] OTHER -> [kind |-> "String", content |-> value]
\* What getValue makes of that: a string that decodes is what it encodes.
Read(stored) ==
  IF stored.kind = "String" /\ stored.content \in Value THEN stored.content ELSE stored
-----------------------------------------------------------------------------
(***************************************************************************)
(* Handles and shared data.  An operation that follows a temporary handle  *)
(* gives it back under the same lock and is not seen to take it.           *)
(***************************************************************************)
Sharers(d) == {s \in Subscriber : subscriber[s] = d}
Live(s) == subscriber[s] # NoData
Connected(s) == Live(s) /\ data[subscriber[s]].connected
\* s lies where a subscriber died that its data still count, and is taken for it.
Miscounted(s) == s \in data[subscriber[s]].haunted

\* Mutant: the first disconnection takes the wire along.
DisconnectedWhole(record, s) ==
  IF ~record.proxy \/ record.count[s] = 0 THEN record
  ELSE [record EXCEPT !.count[s] = @ - 1, !.wired = @ \ {s}]

\* QValueSpaceSubscriberPrivate::disconnect
Disconnected(record, s) ==
  IF ~record.proxy \/ record.count[s] = 0 THEN record
  ELSE [record EXCEPT !.count[s] = @ - 1,
                      !.wired = IF record.count[s] = 1 THEN @ \ {s} ELSE @,
                      !.haunted = IF record.count[s] = 1 THEN @ \ {s} ELSE @]

\* QValueSpaceSubscriberPrivate::connect
ConnectedTo(record, s) ==
  [record EXCEPT !.proxy = TRUE, !.count[s] = @ + 1,
                 !.wired = IF record.count[s] = 0 THEN @ \cup {s} ELSE @]

\* s is destroyed, and QObject undoes the wires to it.
Unwired(record, s) ==
  [record EXCEPT !.wired = @ \ {s},
                 !.haunted = IF record.count[s] > 0 THEN @ \cup {s} ELSE @]

LastSharer(s, old, new) == old # NoData /\ old # new /\ Sharers(old) = {s}

\* The d pointer of s goes from old to new; the last sharer destroys the old
\* data, which takes their proxy along and gives the handle back.
Repoint(s, old, new, records, refs) ==
  LET last == LastSharer(s, old, new)
      released == IF last /\ records[old].connected
                    THEN [refs EXCEPT ![records[old].path] = @ - 1] ELSE refs
  IN  /\ subscriber' = [subscriber EXCEPT ![s] = new]
      /\ data' = IF last THEN [records EXCEPT ![old] = Unused] ELSE records
      /\ delivery' = IF last THEN [delivery EXCEPT ![old] = 0] ELSE delivery
      /\ refCount' = released
      /\ monitored' = {k \in monitored : released[k] > 0}

\* new QValueSpaceSubscriberPrivate(path, filter), with a handle from item().
NewData(d, path, filter) ==
  [Unused EXCEPT !.path = path, !.used = TRUE, !.connected = SubscriberMatches(filter)]
\* Mutant: the handle is taken before the layer is asked whether it fits.
TakenAnyhow(path, filter) == [refCount EXCEPT ![path] = @ + 1]

Taken(path, filter) ==
  IF SubscriberMatches(filter) THEN [refCount EXCEPT ![path] = @ + 1] ELSE refCount
-----------------------------------------------------------------------------
(***************************************************************************)
(* QValueSpaceSubscriber.                                                  *)
(***************************************************************************)
Subscribe(s, argument, filter) ==
  /\ ~Live(s)
  /\ \E d \in Data :
       /\ ~data[d].used
       /\ LET path == Canonical(argument)
          IN  /\ path \in Key
              /\ Repoint(s, NoData, d, [data EXCEPT ![d] = NewData(d, path, filter)],
                         Taken(path, filter))
  /\ UNCHANGED <<store, slots, publishers, notifying, writes, owed>>

\* ~QValueSpaceSubscriber undoes one connection; the counts that are left stay.
Unsubscribe(s) ==
  /\ Live(s)
  /\ LET old == subscriber[s]
         left == IF Connected(s) THEN [data EXCEPT ![old] = Disconnected(@, s)] ELSE data
     IN  Repoint(s, old, NoData, [d \in Data |-> Unwired(left[d], s)], refCount)
  /\ slots' = [slots EXCEPT ![s] = 0]
  /\ owed' = owed \ {s}
  /\ UNCHANGED <<store, publishers, notifying, writes>>

\* The connections of the application go with the old path.
Moved(s) ==
  /\ slots' = [slots EXCEPT ![s] = 0]
  /\ owed' = owed \ {s}
  /\ UNCHANGED <<store, publishers, notifying, writes>>

SetPath(s, argument) ==
  /\ Connected(s)
  /\ argument # data[subscriber[s]].path
  /\ \E d \in Data :
       /\ ~data[d].used
       /\ LET old == subscriber[s]
              path == Canonical(argument)
          IN  /\ path \in Key
              /\ Repoint(s, old, d,
                         [data EXCEPT ![old] = Disconnected(@, s), ![d] = NewData(d, path, {})],
                         Taken(path, {}))
  /\ Moved(s)

SetPathOf(s, t) ==
  /\ Connected(s) /\ Live(t)
  /\ LET old == subscriber[s]
     IN  Repoint(s, old, subscriber[t], [data EXCEPT ![old] = Disconnected(@, s)], refCount)
  /\ Moved(s)

Cd(s, argument) == SetPath(s, data[subscriber[s]].path \o argument)

CdUp(s) ==
  LET path == data[subscriber[s]].path
  IN  path # <<>> /\ SetPath(s, IF Len(path) = 1 THEN <<"">> ELSE Front(path))

\* connectNotify; the layer monitors the handle once a proxy listens.
Monitor(d) == monitored' = IF data[d].proxy THEN monitored ELSE monitored \cup {data[d].path}

ConnectSlot(s) ==
  /\ Live(s) /\ slots[s] < MaxSlots
  /\ data[subscriber[s]].count[s] < MaxSlots  \* bound
  /\ slots' = [slots EXCEPT ![s] = @ + 1]
  /\ LET d == subscriber[s]
     IN  IF Connected(s)
           THEN data' = [data EXCEPT ![d] = ConnectedTo(@, s)] /\ Monitor(d)
           ELSE UNCHANGED <<data, monitored>>
  /\ UNCHANGED <<store, subscriber, delivery, refCount, publishers, notifying, writes, owed>>

\* disconnectNotify, for one connection.
DisconnectSlot(s) ==
  /\ slots[s] > 0
  /\ slots' = [slots EXCEPT ![s] = @ - 1]
  /\ data' = IF Connected(s) THEN [data EXCEPT ![subscriber[s]] = Disconnected(@, s)] ELSE data
  /\ owed' = IF slots[s] = 1 THEN owed \ {s} ELSE owed
  /\ UNCHANGED <<store, subscriber, delivery, layer, publishers, notifying, writes>>

\* The receivers go, or QObject::disconnect of everything: nothing is notified.
DropSlots(s) ==
  /\ slots[s] > 0
  /\ slots' = [slots EXCEPT ![s] = 0]
  /\ owed' = owed \ {s}
  /\ UNCHANGED <<store, subscriber, data, delivery, layer, publishers, notifying, writes>>

\* Reading the property value counts as a connection, the first time.
ReadProperty(s) ==
  /\ Connected(s)
  /\ LET d == subscriber[s]
     IN  /\ ~data[d].proxy \/ data[d].count[s] = 0
         /\ data' = [data EXCEPT ![d] = ConnectedTo(@, s)]
         /\ Monitor(d)
  /\ UNCHANGED <<store, subscriber, slots, delivery, refCount, publishers, notifying, writes, owed>>

\* The proxy's handleChanged: contentsChanged of every subscriber wired to it.
Deliver(d) ==
  /\ delivery[d] > 0
  /\ delivery' = [delivery EXCEPT ![d] = @ - 1]
  /\ owed' = owed \ data[d].wired
  /\ UNCHANGED <<store, subscriber, slots, data, layer, publishers, notifying, writes>>
-----------------------------------------------------------------------------
(***************************************************************************)
(* QValueSpacePublisher, and the layer's setValue and removeValue.         *)
(***************************************************************************)
Publish(p, argument, filter) ==
  /\ publisher[p] = <<"none">>
  /\ PublisherMatches(filter)
  /\ LET path == Canonical(argument)
     IN  /\ path \in Key
         /\ publisher' = [publisher EXCEPT ![p] = path]
         /\ published' = [published EXCEPT ![path] = @ + 1]
         /\ refCount' = [refCount EXCEPT ![path] = @ + 1]
  /\ UNCHANGED <<store, application, monitored, notifying, writes, owed>>

\* ~QValueSpacePublisher: the layer is permanent, the handle is kept.
Unpublish(p) ==
  /\ publisher[p] \in Key
  /\ publisher' = [publisher EXCEPT ![p] = <<"gone">>]
  /\ UNCHANGED <<store, application, layer, published, notifying, writes, owed>>

\* GConf stores the new contents and announces each key that changed.
Store(contents) ==
  LET changed == {k \in Key : contents[k] # store[k]}
  IN  /\ changed # {} /\ writes < MaxWrites
      /\ store' = contents
      /\ \E order \in SetToSeqs(changed) : notification' = notification \o order
      /\ writes' = writes + 1
      /\ owed' = owed \cup {s \in Subscriber : Connected(s) /\ slots[s] > 0 /\ ~Miscounted(s)
                              /\ changed \cap Below(data[subscriber[s]].path) # {}}
      /\ UNCHANGED <<application, layer, publishers, visit>>

SetValue(p, argument, value) ==
  LET key == publisher[p] \o Canonical(argument)
  IN  key \in Key /\ Store([store EXCEPT ![key] = Stored(value)])

ResetValue(p, argument) ==
  LET key == publisher[p] \o Canonical(argument)
  IN  key \in Key /\ Store([k \in Key |-> IF IsPrefix(key, k) THEN Unset ELSE store[k]])

\* Another process.
WriteElsewhere(key, value) == Store([store EXCEPT ![key] = Stored(value)])
-----------------------------------------------------------------------------
(***************************************************************************)
(* GConfLayer::notifyChanged, in the layer's thread.                       *)
(***************************************************************************)
StartNotify ==
  /\ visit.handles = {} /\ notification # <<>>
  /\ visit' = [key |-> Head(notification), handles |-> monitored]
  /\ notification' = Tail(notification)
  /\ UNCHANGED <<store, application, layer, publishers, writes, owed>>

\* handleChanged is posted to every proxy that listens; others ignore the handle.
Posted(handle) ==
  [d \in Data |-> IF data[d].proxy /\ data[d].path = handle THEN delivery[d] + 1 ELSE delivery[d]]

\* A handle deleted since the list was copied is read all the same.
NotifyHandle(handle) ==
  /\ handle \in visit.handles
  /\ visit' = [visit EXCEPT !.handles = @ \ {handle}]
  /\ \E told \in IF handle \in monitored THEN {StartsWith(visit.key, handle)} ELSE BOOLEAN :
       delivery' = IF told THEN Posted(handle) ELSE delivery
  /\ UNCHANGED <<store, subscriber, slots, data, layer, publishers, notification, writes, owed>>
-----------------------------------------------------------------------------
Application ==
  \/ \E s \in Subscriber :
       \/ \E argument \in PathArgument :
            (\E filter \in Filter : Subscribe(s, argument, filter)) \/ SetPath(s, argument)
            \/ (Connected(s) /\ Cd(s, argument))
       \/ Unsubscribe(s) \/ (Connected(s) /\ CdUp(s))
       \/ ConnectSlot(s) \/ DisconnectSlot(s) \/ DropSlots(s) \/ ReadProperty(s)
       \/ \E t \in Subscriber : SetPathOf(s, t)
  \/ \E p \in Publisher :
       \/ \E argument \in PathArgument, filter \in Filter : Publish(p, argument, filter)
       \/ Unpublish(p)
       \/ /\ publisher[p] \in Key
          /\ \E argument \in PathArgument :
               ResetValue(p, argument) \/ \E value \in Value : SetValue(p, argument, value)

Elsewhere == \E key \in Key, value \in Value : WriteElsewhere(key, value)
Layer == StartNotify \/ \E handle \in Key : NotifyHandle(handle)
Main == \E d \in Data : Deliver(d)

Next == Application \/ Elsewhere \/ Layer \/ Main
Spec == Init /\ [][Next]_vars

\* The event loops of the application and of the layer's thread run.
FairSpec == Spec /\ WF_vars(Layer) /\ \A d \in Data : WF_vars(Deliver(d))

\* The layer's count of a handle is the data that hold it, each once however many
\* subscribers share it, and what publishers took, which they never give back.
HandlesCounted ==
  \A k \in Key :
    refCount[k] = published[k]
      + Cardinality({d \in Data : data[d].used /\ data[d].connected /\ data[d].path = k})

\* Whatever was connected, shared, moved and destroyed before, and wherever new
\* subscribers come to lie: a subscriber with a slot on contentsChanged is wired to
\* the proxy of its own data, whose handle is monitored, unless the data take it for
\* a dead one.
SlotsServed ==
  \A s \in Subscriber :
    Connected(s) /\ slots[s] > 0 /\ ~Miscounted(s) =>
      LET d == data[subscriber[s]]
      IN  d.proxy /\ s \in d.wired /\ d.path \in monitored

\* A change still to report to a subscriber is on its way to it: its key is to be
\* looked at, or is looked at with the subscriber's handle left to tell, or the
\* proxy the subscriber is wired to has an event for it.
ChangesUnderWay ==
  \A s \in owed :
    /\ Connected(s) /\ slots[s] > 0
    /\ LET d == subscriber[s]
           path == data[d].path
       IN  \/ \E i \in 1 .. Len(notification) : IsPrefix(path, notification[i])
           \/ path \in visit.handles /\ IsPrefix(path, visit.key)
           \/ delivery[d] > 0

\* A change under the path of a subscriber with a slot that is not taken for a dead
\* one is reported to it, unless it moves, is destroyed or gives up its slots first.
ChangesReported == \A s \in Subscriber : s \in owed ~> s \notin owed

\* No subscriber is taken for one that died.
\* (The code does not keep it; no run checks it.)
NoneMiscounted == \A s \in Subscriber : Connected(s) => ~Miscounted(s)
===============================================================================
