---------------------------- MODULE MCServiceFramework ----------------------------
(***************************************************************************)
(* Small instances of the parts of the service framework.                  *)
(***************************************************************************)
EXTENDS ServiceFramework

CONSTANTS here, there, elsewhere, mine, yours, iface, other

\* A service with two versions of an interface and one of another, the same
\* service from a second location, and a competitor.
MCMetaData ==
  {[location |-> here, service |-> mine, interfaces |-> {<<iface, 1>>, <<iface, 2>>}],
   [location |-> there, service |-> mine, interfaces |-> {<<iface, 3>>, <<other, 1>>}],
   [location |-> there, service |-> mine, interfaces |-> {<<iface, 2>>}],
   [location |-> elsewhere, service |-> yours, interfaces |-> {<<iface, 2>>, <<other, 2>>}]}

\* Two proxies of one client and one of another.
MCOwnerOf == [p1 |-> "c1", p2 |-> "c1", p3 |-> "c2"]
MCScopeOf == <<"user", "user">>
\* Two packages of one name, one of its own process, and one the device came with.
PackageOf(name, location, ipc) == [name |-> name, location |-> location, ipc |-> ipc]
MCPackage == {PackageOf("n", "a", FALSE), PackageOf("n", "b", FALSE),
                   PackageOf("i", "c", TRUE), PackageOf("g", "g", FALSE)}
MCGenerated == [user |-> {PackageOf("g", "g", FALSE)}, system |-> {}]

\* An interface whose name ends as a version does, and the versions that do.
MCInterfaceName == {<<"i">>, <<"i", "1">>}
MCDocumentVersion == {<<1, 0>>, <<11, 0>>}
MCCriteria == {{"d"}, {"d", "e"}}
MCQObjectMethods == <<"destroyed", "deleteLater">>
\* Methods of a service on the bus, some that share a signature there.
MethodOf(name, kind, params, ret) == [name |-> name, kind |-> kind, params |-> params, ret |-> ret]
MCBusMethods ==
  {MethodOf("set", "call", params, "void") : params \in {<<>>, <<"int">>, <<"QVariant">>, <<"C">>}} \cup
  {MethodOf("get", "call", <<"C", "int">>, "int"), MethodOf("make", "call", <<"int">>, "C"),
   MethodOf("look", "call", <<"QVariant">>, "QVariant"),
   MethodOf("changed", "signal", <<"int">>, "void"), MethodOf("moved", "signal", <<"C">>, "void"),
   MethodOf("told", "signal", <<"QVariant">>, "void")} \cup
  {MethodOf("same", "signal", params, "void") : params \in {<<"QVariant">>, <<"C">>}}
\* Methods of a service on a socket: a signal with an argument nobody knows, and
\* more arguments than are carried.
OwnMethod(name, kind, arity, knows) == [name |-> name, kind |-> kind, arity |-> arity, known |-> knows]
MCOwnMethods ==
  <<OwnMethod("changed", "signal", 1, TRUE), OwnMethod("odd", "signal", 1, FALSE),
    OwnMethod("put", "void", 1, TRUE), OwnMethod("get", "value", 0, TRUE),
    OwnMethod("many", "void", 11, TRUE)>>
=============================================================================
