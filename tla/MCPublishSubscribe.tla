---------------------------- MODULE MCPublishSubscribe ----------------------------
(***************************************************************************)
(* The two layers of the value space of QtPublishSubscribe are built for   *)
(* one platform each.  One run checks the value space over GConf and the   *)
(* layer of the Windows registry, one after the other: active says which   *)
(* one a behaviour is about, and the other stays as it begins.             *)
(***************************************************************************)
EXTENDS ValueSpace

VARIABLES
  active,
  keys, values, registryLayer, reader, creators, registryPublisher, hasSet, registryOwed,
  forsaken, changes

\* The name ab starts with the name a.
MCNameStarts == [p \in {"a", "ab"} \X {"a", "ab"} |-> p[1] = p[2] \/ p = <<"ab", "a">>]
MCKey == {<<>>, <<"a">>, <<"ab">>}
MCPathArgument == {<<"a">>}
MCFilter == {{}, {"Transient"}}
MCValue == {[kind |-> "Int", content |-> "1"]}

Registry == INSTANCE RegistryLayer
  WITH Path <- {<<>>, <<"a">>, <<"a", "b">>}, HKey <- 1..4, NoKey <- 0, Reader <- {1},
       Creator <- {1}, ReaderPath <- {<<"a">>, <<"a", "b">>},
       PublisherPath <- {<<"a">>}, ValuePath <- {<<"a", "b">>}, MaxRefs <- 2,
       MaxChanges <- 2, layer <- registryLayer, publisher <- registryPublisher,
       owed <- registryOwed

registryVars == <<keys, values, registryLayer, reader, creators, registryPublisher, hasSet,
                  registryOwed, forsaken, changes>>

EitherInit ==
  /\ Init /\ Registry!Init
  /\ active = "registry" \/ (active = "valueSpace" /\ keys = {<<>>})

SpaceStep ==
  /\ active = "valueSpace" /\ Next
  /\ UNCHANGED <<active, registryVars>>
RegistryStep ==
  /\ active = "registry" /\ Registry!Next
  /\ UNCHANGED <<active, vars>>

EitherNext == SpaceStep \/ RegistryStep

\* The event loops of the application and of the GConf layer's thread run.
Fairness ==
  /\ WF_vars(active = "valueSpace" /\ Layer)
  /\ \A d \in Data : WF_vars(active = "valueSpace" /\ Deliver(d))
EitherSpec == EitherInit /\ [][EitherNext]_<<active, vars, registryVars>> /\ Fairness
-----------------------------------------------------------------------------
\* The registry layer counts at least one reference of a handle for each reader and
\* each path it stands in for, a registry key is open exactly while some handle uses
\* it (registrylayer_win.cpp 345-580), and a reader with slots is watched, whatever
\* other processes create and delete (registrylayer_win.cpp 400-850).
RegistryServed ==
  /\ Registry!TypeOK /\ Registry!HandlesHeld /\ Registry!KeysOpenWhileUsed
  /\ Registry!ReadersWatched
=============================================================================
