----------------------------- MODULE ReadWriteLock -----------------------------
(***************************************************************************)
(* What a lock for readers and writers promises its users, whatever it is  *)
(* made of: many readers or one writer.                                    *)
(***************************************************************************)
EXTENDS FiniteSets

CONSTANT Proc
VARIABLES readers, writers

Init == readers = {} /\ writers = {}

AcquireRead(p) ==
  /\ writers = {} /\ p \notin readers
  /\ readers' = readers \cup {p} /\ UNCHANGED writers

AcquireWrite(p) ==
  /\ writers = {} /\ readers = {}
  /\ writers' = {p} /\ UNCHANGED readers

Release(p) ==
  /\ p \in readers \cup writers
  /\ readers' = readers \ {p} /\ writers' = writers \ {p}

Next == \E p \in Proc : AcquireRead(p) \/ AcquireWrite(p) \/ Release(p)

Spec == Init /\ [][Next]_<<readers, writers>>
=============================================================================
