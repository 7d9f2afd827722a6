--------------------------- MODULE MCDatabaseManager ---------------------------
(* Two services that implement one interface in two versions.                *)
EXTENDS DatabaseManager, TLC

CONSTANTS here, there, old, new, iface

MCMetaData ==
  {[location |-> here, service |-> old, interfaces |-> {<<iface, 1>>}],
   [location |-> there, service |-> new, interfaces |-> {<<iface, 2>>}]}

IdSymmetry == Permutations(Id) \cup Permutations(Proc)
===============================================================================
