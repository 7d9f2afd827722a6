------------------------------ MODULE RegistryLayer ------------------------------
(***************************************************************************)
(* RegistryLayer, the layer of the value space on Windows: handles on      *)
(* paths, the registry keys open for them, the waits for changes of these  *)
(* keys, and the handles that wait by proxy for a key that is not there.   *)
(*                                                                         *)
(* Its operations hold one recursive mutex, so each is a step; they are    *)
(* written as functions of the layer's state, a record.  The registry      *)
(* itself is changed by other processes as well.  A path is the sequence   *)
(* of the names in it; a value is where its name leads from its key.       *)
(***************************************************************************)
EXTENDS Naturals, Sequences, FiniteSets, SequencesExt, FiniteSetsExt

CONSTANTS
  Path,              \* closed under prefixes
  HKey, NoKey,       \* handles of registry keys
  Reader, Creator,   \* who calls: subscribers' data, publishers
  ReaderPath, PublisherPath, ValuePath,  \* those of readers, publishers and values
  MaxRefs, MaxChanges  \* bounds: of leaked references, of registry changes

VARIABLES
  keys, values,      \* the registry: its keys and its values
  layer,             \* the layer, a record of
                     \*   ref, valueHandle   handles: each RegistryHandle
                     \*   hkey               hKeys: the key open for a handle
                     \*   open, stale        what an HKEY is open for; deleted keys
                     \*   wait, armed        waitHandles; those that can still fire
                     \*   proxy              notifyProxies: <<proxy, proxied>>, a bag
                     \*   posted             queued calls of emitHandleChanged
                     \*   told               handles it emitted handleChanged for
  reader,            \* the path of each reader, and whether it has slots
  creators,          \* creators: the paths a publisher created
  publisher,         \* the path of each publisher
  hasSet,            \* the publishers that have called setValue
  owed,              \* readers with a change still to report (history)
  forsaken,          \* readers with slots whose watch was lost (history)
  changes            \* how often the registry changed (bounds the model)

publishers == <<creators, publisher, hasSet>>
vars == <<keys, values, layer, reader, publishers, owed, forsaken, changes>>

Closed == <<"closed">>
Absent == [path |-> Closed, publish |-> FALSE]
Pair == Path \X Path

Parent(p) == Front(p)
Ancestors(p) == {q \in Path : IsPrefix(q, p)}

TypeOK ==
  /\ keys \subseteq Path /\ values \subseteq Path
  /\ layer.ref \in [Path -> Nat]
  /\ layer.hkey \in [Path -> HKey \cup {NoKey}]
  /\ layer.open \in [HKey -> Path \cup {Closed}]
  /\ layer.armed \subseteq layer.wait /\ layer.wait \subseteq HKey
  /\ layer.proxy \in [Pair -> Nat]
  /\ layer.posted \subseteq HKey
  /\ reader \in [Reader -> [path : Path \cup {Closed}, publish : BOOLEAN]]
  /\ \A c \in Creator : creators[c] \in Seq(Path)
  /\ hasSet \subseteq {c \in Creator : publisher[c] # Closed}

Init ==
  /\ \E left \in SUBSET ValuePath :  \* what other processes left
       /\ keys = {<<>>} \cup UNION {Ancestors(Parent(v)) : v \in left}
       /\ values \in SUBSET left
  /\ layer = [ref |-> [p \in Path |-> 0], valueHandle |-> {},
              hkey |-> [p \in Path |-> NoKey],
              open |-> [k \in HKey |-> Closed], stale |-> {},
              wait |-> {}, armed |-> {}, proxy |-> [pair \in Pair |-> 0],
              posted |-> {}, told |-> {}]
  /\ reader = [r \in Reader |-> Absent]
  /\ creators = [c \in Creator |-> <<>>]
  /\ publisher = [c \in Creator |-> Closed] /\ hasSet = {}
  /\ owed = {} /\ forsaken = {} /\ changes = 0

Under(p) == {q \in Path : IsPrefix(p, q)}
Users(L, k) == {p \in Path : L.hkey[p] = k}
-----------------------------------------------------------------------------
(***************************************************************************)
(* Handles and their keys.                                                 *)
(***************************************************************************)
Item(L, p) == [L EXCEPT !.ref[p] = @ + 1]

\* Mutant: the key of a handle is closed although others use it.
CloseShared(L, p) ==
  LET k == L.hkey[p]
      taken == [L EXCEPT !.hkey[p] = NoKey]
  IN  IF k = NoKey THEN L
      ELSE [taken EXCEPT !.open[k] = Closed, !.stale = @ \ {k},
                         !.wait = @ \ {k}, !.armed = @ \ {k}]

CloseKey(L, p) ==
  LET k == L.hkey[p]
      taken == [L EXCEPT !.hkey[p] = NoKey]
  IN  IF k = NoKey THEN L
      ELSE IF Users(taken, k) # {} THEN taken
      ELSE [taken EXCEPT !.open[k] = Closed, !.stale = @ \ {k},
                         !.wait = @ \ {k}, !.armed = @ \ {k}]

\* removeHandle; the last reference gives up the proxies of the handle too.
RECURSIVE Release(_, _), ReleaseTimes(_, _, _)
Release(L, p) ==
  IF L.ref[p] = 0 THEN L
  ELSE IF L.ref[p] > 1 THEN [L EXCEPT !.ref[p] = @ - 1]
  ELSE LET GiveUp(q, M) == ReleaseTimes([M EXCEPT !.proxy[q, p] = 0], q, M.proxy[q, p])
           gone == FoldSet(GiveUp, L, {q \in Path : L.proxy[q, p] > 0})
       IN  CloseKey([gone EXCEPT !.ref[p] = 0, !.valueHandle = @ \ {p}], p)
ReleaseTimes(L, p, n) == IF n = 0 THEN L ELSE ReleaseTimes(Release(L, p), p, n - 1)

OpenFor(L, p) ==
  LET k == CHOOSE k \in HKey : L.open[k] = Closed
  IN  [L EXCEPT !.hkey[p] = k, !.open[k] = p]

\* children, of an open key: enumerating a deleted one posts emitHandleChanged.
Enumerated(L, p) == IF L.hkey[p] \in L.stale THEN [L EXCEPT !.posted = @ \cup {L.hkey[p]}] ELSE L
HasChild(L, p, child) ==
  p \notin L.valueHandle /\ L.hkey[p] \notin L.stale /\ child \in keys \cup values

\* openRegistryKey: the key, or that of the value the path leads to.  The parent
\* of a path of one name is the empty string, for which there is no handle.
RECURSIVE OpenKey(_, _)
OpenKey(L, p) ==
  IF L.hkey[p] # NoKey THEN L
  ELSE IF p \in keys THEN OpenFor(L, p)
  ELSE IF Len(p) <= 1 THEN L
  ELSE LET parent == Parent(p)
           opened == OpenKey(Item(L, parent), parent)
           seen == Enumerated(opened, parent)
       IN  IF opened.hkey[parent] = NoKey THEN Release(opened, parent)
           ELSE IF ~HasChild(opened, parent, p) THEN Release(seen, parent)
           ELSE Release([seen EXCEPT !.valueHandle = @ \cup {p}, !.hkey[p] = seen.hkey[parent]],
                       parent)

\* RegNotifyChangeKeyValue refuses the handle of a deleted key.
Arm(L, k) ==
  IF k \in L.wait \cup L.stale THEN L
  ELSE [L EXCEPT !.wait = @ \cup {k}, !.armed = @ \cup {k}]

\* setProperty: the nearest key above stands in for one that is not there.
RECURSIVE StandIn(_, _, _)
StandIn(L, p, q) ==
  LET opened == OpenKey(Item(L, q), q)
  IN  IF opened.hkey[q] # NoKey THEN Arm([opened EXCEPT !.proxy[q, p] = @ + 1], opened.hkey[q])
      ELSE IF q = <<>> THEN Release(opened, q)
      ELSE StandIn(Release(opened, q), p, Parent(q))

Watch(L, p) ==
  LET opened == OpenKey(L, p)
  IN  IF L.ref[p] = 0 THEN L
      ELSE IF opened.hkey[p] = NoKey THEN StandIn(opened, p, p)
      ELSE Arm(opened, opened.hkey[p])

\* removeRegistryValue and pruneEmptyKeys close the keys of all handles below.
CloseBelow(L, p) == LET Close(q, M) == CloseKey(M, q) IN FoldSet(Close, L, Under(p))

\* A change under p will be noticed: the wait of its own key can fire, or has fired
\* and is about to be handled, or so it is for a handle that stands in for p.
Waits(L, k) == k \in L.armed \/ k \in L.wait \cap L.posted
RECURSIVE Watched(_, _)
Watched(L, p) ==
  Waits(L, L.hkey[p]) \/ \E q \in Path : L.proxy[q, p] > 0 /\ Watched(L, q)
-----------------------------------------------------------------------------
(***************************************************************************)
(* The registry: what a change does to the keys that are open.             *)
(***************************************************************************)
\* The wait of an armed key fires when anything at or below the key changes.
Sensed(L, places) ==
  LET firing == {k \in L.armed : L.open[k] # Closed /\ k \notin L.stale
                                 /\ \E x \in places : IsPrefix(L.open[k], x)}
  IN  [L EXCEPT !.posted = @ \cup firing, !.armed = @ \ firing]

Deleted(L, gone) ==
  LET sensed == Sensed(L, gone)
  IN  [sensed EXCEPT !.stale = @ \cup {k \in HKey : L.open[k] \in gone}]

Registry(newKeys, newValues) ==
  /\ keys' = newKeys /\ values' = newValues
  /\ changes < MaxChanges /\ changes' = changes + 1

\* Readers owed a report: those with slots and a change at or below their path.
Owing(places) ==
  {r \in Reader : reader[r].publish /\ \E x \in places : IsPrefix(reader[r].path, x)}
\* They are told when handleChanged names their handle.  A watch is lost to a
\* removal by this process and to a deleted key that some handle keeps open.
Settle(L, debts, removal) ==
  /\ layer' = [L EXCEPT !.told = {}]
  /\ owed' = {r \in debts : reader'[r].publish /\ reader'[r].path \notin L.told}
  /\ forsaken' = {r \in Reader :
       LET p == reader'[r].path
       IN  /\ reader'[r].publish
           /\ \/ r \in forsaken
              \/ ~Watched(L, p) /\ (removal \/ \E q \in Ancestors(p) : L.hkey[q] \in L.stale)}

ElsewhereWrites(v) ==
  LET made == Ancestors(Parent(v)) \ keys
  IN  /\ v \notin keys
      /\ Registry(keys \cup made, values \cup {v})
      /\ UNCHANGED <<reader, publishers>>
      /\ Settle(Sensed(layer, made \cup {v}), owed \cup Owing(made \cup {v}), FALSE)

\* What came and goes unseen is not owed.
ElsewhereDeletes(p) ==
  LET gone == (keys \cup values) \cap Under(p)
  IN  /\ p # <<>> /\ gone # {}
      /\ Registry(keys \ gone, values \ gone)
      /\ UNCHANGED <<reader, publishers>>
      /\ Settle(Deleted(layer, gone),
                {r \in owed \cup Owing(gone) :
                   IsPrefix(p, reader[r].path) => layer.hkey[reader[r].path] # NoKey}, FALSE)
-----------------------------------------------------------------------------
(***************************************************************************)
(* What subscribers ask of the layer.                                      *)
(***************************************************************************)
Attach(r, p) ==
  /\ reader[r] = Absent
  /\ reader' = [reader EXCEPT ![r].path = p]
  /\ UNCHANGED <<keys, values, publishers, changes>>
  /\ Settle(Item(layer, p), owed, FALSE)

SetProperty(r) ==
  /\ reader[r].path \in Path /\ ~reader[r].publish
  /\ \A q \in Path : layer.proxy[q, reader[r].path] < MaxRefs  \* bound: these leak too
  /\ reader' = [reader EXCEPT ![r].publish = TRUE]
  /\ UNCHANGED <<keys, values, publishers, changes>>
  /\ Settle(Watch(layer, reader[r].path), owed, FALSE)

Detach(r) ==
  /\ reader[r].path \in Path
  /\ reader' = [reader EXCEPT ![r] = Absent]
  /\ UNCHANGED <<keys, values, publishers, changes>>
  /\ Settle(Release(layer, reader[r].path), owed \ {r}, FALSE)

\* value: the handle it takes for the full path is never given back.
ReadValue(r) ==
  LET p == reader[r].path
      full == OpenKey(Item(layer, p), p)
  IN  /\ p \in Path /\ layer.ref[p] < MaxRefs
      /\ UNCHANGED <<keys, values, reader, publishers, changes>>
      /\ Settle(IF p \in full.valueHandle
                  THEN Release(OpenKey(Item(full, Parent(p)), Parent(p)), Parent(p))
                  ELSE full, owed, FALSE)
-----------------------------------------------------------------------------
(***************************************************************************)
(* What publishers ask of it.                                              *)
(***************************************************************************)
Publish(c, p) ==
  /\ publisher[c] = Closed
  /\ layer.ref[p] < MaxRefs  \* bound: this handle is never given back
  /\ publisher' = [publisher EXCEPT ![c] = p]
  /\ UNCHANGED <<keys, values, reader, creators, hasSet, changes>>
  /\ Settle(Item(layer, p), owed, FALSE)

Created(list, paths) ==
  LET missing == SetToSeq({p \in paths : ~Contains(list, p)}) IN list \o missing

\* setValue, of the value v under the publisher's path.
SetValue(c, v) ==
  LET p == Parent(v)
      item == Item(layer, p)
      marked == IF item.ref[v] > 0 THEN [item EXCEPT !.valueHandle = @ \cup {v}] ELSE item
      create == marked.hkey[p] = NoKey
      made == IF create THEN Ancestors(p) \ keys ELSE {}
      opened == IF create THEN OpenFor(Sensed(marked, made), p) ELSE marked
      written == opened.hkey[p] \notin opened.stale
      places == made \cup (IF written THEN {v} ELSE {})
  IN  /\ publisher[c] # Closed /\ IsStrictPrefix(publisher[c], v)
      /\ v \notin keys
      /\ Registry(keys \cup made, IF written THEN values \cup {v} ELSE values)
      /\ creators' = [creators EXCEPT ![c] = Created(@, {v} \cup (made \cap {p}))]
      /\ hasSet' = hasSet \cup {c}
      /\ UNCHANGED <<reader, publisher>>
      /\ Settle(Release(Sensed(opened, places), p), owed \cup Owing(places), FALSE)

\* removeRegistryValue: the value, or else the tree at the path, there or not.
\* State: the layer, the registry and the places that changed.
Unwritten(S, p) ==
  LET parent == Parent(p)
      opened == OpenKey(Item(S.layer, parent), parent)
      k == opened.hkey[parent]
      tree == S.keys \cap Under(p)
      outcome ==
        CASE k = NoKey \/ k \in opened.stale -> [S EXCEPT !.layer = opened]
          [] p \in S.values ->
               [S EXCEPT !.layer = Sensed(opened, {p}), !.values = @ \ {p}, !.places = @ \cup {p}]
          [] OTHER ->
               [S EXCEPT !.layer = CloseBelow(Deleted(opened, tree), parent),
                         !.keys = @ \ tree, !.values = @ \ (IF tree = {} THEN {} ELSE Under(p)),
                         !.places = @ \cup tree]
  IN  [outcome EXCEPT !.layer = Release(@, parent)]

Current == [layer |-> layer, keys |-> keys, values |-> values, places |-> {}]

ResetValue(c, v) ==
  /\ publisher[c] # Closed /\ IsStrictPrefix(publisher[c], v)
  /\ Contains(creators[c], v)  \* a transient layer; a permanent one does not ask
  /\ UNCHANGED <<reader, publisher, hasSet>>
  /\ creators' = [creators EXCEPT ![c] = RemoveFirst(@, v)]
  /\ \E S \in {Unwritten(Current, v)} :
       /\ Registry(S.keys, S.values)
       /\ Settle(S.layer, owed \cup Owing(S.places), TRUE)

\* removeSubTree: what the publisher created below p and, after each path, the
\* path above it.
RECURSIVE Clear(_, _, _, _)
Clear(S, list, p, mine) ==
  IF list = <<>> THEN [state |-> S, mine |-> mine]
  ELSE LET item == Head(list)
           rest == Tail(list)
           above == IF Len(item) > 1 /\ ~Contains(rest, Parent(item))
                      THEN Append(rest, Parent(item)) ELSE rest
       IN  IF IsPrefix(p, item)
             THEN Clear(Unwritten(S, item), above, p, RemoveFirst(mine, item))
             ELSE Clear(S, rest, p, mine)

HasChildren(S, L, p) ==
  /\ p \notin L.valueHandle /\ L.hkey[p] \notin L.stale \cup {NoKey}
  /\ \E x \in S.keys \cup S.values : Len(x) = Len(p) + 1 /\ IsPrefix(p, x)

\* pruneEmptyKeys: the keys from p upwards, to the first that has children.
\* RegDeleteKey spares a key with keys in it; then, and if the key above is a
\* deleted one, the handle is kept.
RECURSIVE Prune(_, _)
Prune(S, p) ==
  IF p = <<>> THEN S
  ELSE LET parent == Parent(p)
           opened == OpenKey(Item(S.layer, parent), parent)
           bare == ~\E q \in S.keys : IsStrictPrefix(p, q)
           pruned == IF p \in S.keys
                       THEN [layer |-> CloseBelow(Deleted(opened, {p}), parent),
                             keys |-> S.keys \ {p}, values |-> S.values \ Under(p),
                             places |-> S.places \cup {p}]
                       ELSE [S EXCEPT !.layer = opened]
           looked == OpenKey(pruned.layer, parent)
           left == [pruned EXCEPT !.layer = Release(looked, parent)]
       IN  IF opened.hkey[parent] = NoKey THEN [S EXCEPT !.layer = Release(opened, parent)]
           ELSE IF opened.hkey[parent] \in opened.stale \/ ~bare THEN [S EXCEPT !.layer = opened]
           ELSE IF HasChildren(pruned, looked, parent) THEN left
           ELSE Prune(left, parent)

Emptied(S, p) ==
  LET looked == [S EXCEPT !.layer = OpenKey(@, p)]
  IN  IF HasChildren(looked, looked.layer, p) THEN looked ELSE Prune(looked, p)

\* ~QValueSpacePublisher, of a transient layer; the handle is never given back.
\* What it set is removed and empty keys pruned, whatever is left of what it set.
Unpublish(c) ==
  /\ publisher[c] # Closed
  /\ publisher' = [publisher EXCEPT ![c] = Closed] /\ hasSet' = hasSet \ {c}
  /\ \/ /\ c \notin hasSet
        /\ UNCHANGED <<keys, values, layer, reader, creators, owed, forsaken, changes>>
     \/ /\ c \in hasSet
        /\ UNCHANGED reader
        /\ \E cleared \in {Clear(Current, creators[c], publisher[c], creators[c])} :
             /\ creators' = [creators EXCEPT ![c] = cleared.mine]
             /\ \E S \in {Emptied(cleared.state, publisher[c])} :
                  /\ Registry(S.keys, S.values)
                  /\ Settle(S.layer, owed \cup Owing(S.places), TRUE)
-----------------------------------------------------------------------------
(***************************************************************************)
(* emitHandleChanged, posted when a wait fires.                            *)
(***************************************************************************)
\* The handle p, and what it stands in for if that has a key by now.
Tell(p, L) ==
  LET Serve(q, M) ==
        LET opened == OpenKey(M, q)
            freed == ReleaseTimes([opened EXCEPT !.proxy[p, q] = 0], p, opened.proxy[p, q])
        IN  IF opened.hkey[q] = NoKey THEN opened
            ELSE [Watch(freed, q) EXCEPT !.told = @ \cup {q}]
  IN  FoldSet(Serve, [L EXCEPT !.told = @ \cup {p}], {q \in Path : L.proxy[p, q] > 0})

\* A deleted key is closed and its handles look for what is there now.
Reopen(L, k) ==
  LET shut == [L EXCEPT !.hkey = [p \in Path |-> IF L.hkey[p] = k THEN NoKey ELSE L.hkey[p]],
                        !.open[k] = Closed, !.stale = @ \ {k}]
      Rewatch(p, M) == Watch(M, p)
  IN  FoldSet(Rewatch, shut, Users(L, k))

Handled(k) ==
  LET L == [layer EXCEPT !.posted = @ \ {k}]
      told == FoldSet(Tell, L, Users(L, k))
      off == [told EXCEPT !.wait = @ \ {k}, !.armed = @ \ {k}]
  IN  IF Users(L, k) = {} \/ k \notin told.wait THEN off
      ELSE IF k \in told.stale THEN Reopen(off, k)
      ELSE [told EXCEPT !.armed = @ \cup {k}]

EmitHandleChanged(k) ==
  /\ k \in layer.posted
  /\ UNCHANGED <<keys, values, reader, publishers, changes>>
  /\ \E L \in {Handled(k)} : Settle(L, owed, FALSE)
-----------------------------------------------------------------------------
Elsewhere == (\E v \in ValuePath : ElsewhereWrites(v)) \/ \E p \in Path : ElsewhereDeletes(p)
Subscribers ==
  \E r \in Reader :
    (\E p \in ReaderPath : Attach(r, p)) \/ SetProperty(r) \/ Detach(r) \/ ReadValue(r)
Publishers ==
  \E c \in Creator :
    \/ \E p \in PublisherPath : Publish(c, p)
    \/ \E v \in ValuePath : SetValue(c, v) \/ ResetValue(c, v)
    \/ Unpublish(c)
Emit == \E k \in HKey : EmitHandleChanged(k)

Next == Elsewhere \/ Subscribers \/ Publishers \/ Emit
Spec == Init /\ [][Next]_vars

\* A registry key is closed exactly when no handle uses it any more: none is used
\* closed and none is left open, and only open ones are waited for.
KeysOpenWhileUsed ==
  /\ {k \in HKey : layer.open[k] # Closed} = {layer.hkey[p] : p \in Path} \ {NoKey}
  /\ layer.wait \subseteq {layer.hkey[p] : p \in Path}

\* Every handle has a reference for each reader, and for each path it stands in
\* for; reads, publishers and some removals leave more.
HandlesHeld ==
  \A p \in Path :
    layer.ref[p] >= Cardinality({r \in Reader : reader[r].path = p})
                    + MapThenSumSet(LAMBDA q : layer.proxy[p, q], Path)

\* A reader with slots is watched, whatever other processes create and delete,
\* unless this process removed something or its key was stale from the start.
ReadersWatched ==
  \A r \in Reader \ forsaken : reader[r].publish => Watched(layer, reader[r].path)

\* The report of a change to a reader that is watched is on its way until it is
\* told.  It is not, when a key a handle stands in at is deleted and comes back.
\* (The code does not keep it; no run checks it.)
ReportsUnderway == owed \subseteq forsaken \/ layer.posted # {}
===============================================================================
