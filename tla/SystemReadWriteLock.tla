-------------------------- MODULE SystemReadWriteLock --------------------------
(***************************************************************************)
(* QSystemReadWriteLock (qsystemreadwritelock_win.cpp), the lock processes *)
(* share on Windows: three counts in shared memory and two system          *)
(* semaphores.  The code between m_counts.lock() and m_counts.unlock() is  *)
(* one action.  A thread that has to wait leaves the counts, acquires a    *)
(* semaphore and comes back to look again; others run in between.          *)
(***************************************************************************)
EXTENDS Integers, FiniteSets

CONSTANTS Proc,     \* the threads that use the lock, one operation each at a time
          MaxValue  \* the largest value of a semaphore that is looked at

ASSUME LockAssumption == IsFiniteSet(Proc) /\ MaxValue \in Nat

VARIABLES
  accessCount, waitingReaders, waitingWriters,  \* the shared memory m_counts
  readerWait, writerWait,                       \* the semaphores' values
  at                                            \* where each thread is

counts == <<accessCount, waitingReaders, waitingWriters>>
lockVars == <<counts, readerWait, writerWait, at>>

\* "...Wait": acquiring the semaphore; "...Woken": has it, not yet the counts.
Places == {"out", "readWait", "readWoken", "reading",
           "writeWait", "writeWoken", "writing"}

LockTypeOK ==
  /\ accessCount \in Int
  /\ waitingReaders \in Nat /\ waitingWriters \in Nat
  /\ readerWait \in Nat /\ writerWait \in Nat
  /\ at \in [Proc -> Places]

\* The lock is constructed once in Create mode, before it is used.
LockInit ==
  /\ accessCount = 0 /\ waitingReaders = 0 /\ waitingWriters = 0
  /\ readerWait = 0 /\ writerWait = 0
  /\ at = [p \in Proc |-> "out"]

Move(p, place) == at' = [at EXCEPT ![p] = place]

\* Mutant: readers do not wait for waiting writers.
ReadersBlockedByWriterOnly == accessCount < 0

\* Mutant: readers wait for waiting writers only.
ReadersBlockedByWaitersOnly == waitingWriters > 0

\* The conditions of the loops.
ReadersBlocked == accessCount < 0 \/ waitingWriters > 0
WritersBlocked == accessCount # 0
-----------------------------------------------------------------------------
LockForRead(p) ==
  /\ at[p] = "out"
  /\ IF ReadersBlocked
     THEN /\ waitingReaders' = waitingReaders + 1
          /\ Move(p, "readWait") /\ UNCHANGED <<accessCount, waitingWriters>>
     ELSE /\ accessCount' = accessCount + 1
          /\ Move(p, "reading") /\ UNCHANGED <<waitingReaders, waitingWriters>>
  /\ UNCHANGED <<readerWait, writerWait>>

WakeReader(p) ==
  /\ at[p] = "readWait" /\ readerWait > 0
  /\ readerWait' = readerWait - 1
  /\ Move(p, "readWoken")
  /\ UNCHANGED <<counts, writerWait>>

\* The thread decrements waitingReaders, and increments it again if it waits on.
RetryRead(p) ==
  /\ at[p] = "readWoken"
  /\ IF ReadersBlocked
     THEN Move(p, "readWait") /\ UNCHANGED counts
     ELSE /\ waitingReaders' = waitingReaders - 1
          /\ accessCount' = accessCount + 1
          /\ Move(p, "reading") /\ UNCHANGED waitingWriters
  /\ UNCHANGED <<readerWait, writerWait>>

LockForWrite(p) ==
  /\ at[p] = "out"
  /\ IF WritersBlocked
     THEN /\ waitingWriters' = waitingWriters + 1
          /\ Move(p, "writeWait") /\ UNCHANGED <<accessCount, waitingReaders>>
     ELSE /\ accessCount' = accessCount - 1
          /\ Move(p, "writing") /\ UNCHANGED <<waitingReaders, waitingWriters>>
  /\ UNCHANGED <<readerWait, writerWait>>

WakeWriter(p) ==
  /\ at[p] = "writeWait" /\ writerWait > 0
  /\ writerWait' = writerWait - 1
  /\ Move(p, "writeWoken")
  /\ UNCHANGED <<counts, readerWait>>

RetryWrite(p) ==
  /\ at[p] = "writeWoken"
  /\ IF WritersBlocked
     THEN Move(p, "writeWait") /\ UNCHANGED counts
     ELSE /\ waitingWriters' = waitingWriters - 1
          /\ accessCount' = accessCount - 1
          /\ Move(p, "writing") /\ UNCHANGED waitingReaders
  /\ UNCHANGED <<readerWait, writerWait>>

\* Mutant: readers go before writers.
HandoverToReaders ==
  IF waitingReaders > 0
  THEN readerWait' = readerWait + waitingReaders /\ UNCHANGED writerWait
  ELSE writerWait' = writerWait + 1 /\ UNCHANGED readerWait

\* Mutant: no reader is woken.
HandoverToWriter ==
  /\ writerWait' = IF waitingWriters > 0 THEN writerWait + 1 ELSE writerWait
  /\ UNCHANGED readerWait

\* Whom unlock wakes when the lock becomes free: one writer, or all readers.
Handover ==
  IF waitingWriters > 0
  THEN writerWait' = writerWait + 1 /\ UNCHANGED readerWait
  ELSE readerWait' = readerWait + waitingReaders /\ UNCHANGED writerWait

\* Wake-ups that come in useless stay in the semaphore, without a bound.
Unlock(p) ==
  /\ at[p] \in {"reading", "writing"}
  /\ accessCount' = IF accessCount > 0 THEN accessCount - 1 ELSE accessCount + 1
  /\ IF accessCount' = 0 THEN Handover ELSE UNCHANGED <<readerWait, writerWait>>
  /\ Move(p, "out")
  /\ readerWait' <= MaxValue /\ writerWait' <= MaxValue
  /\ UNCHANGED <<waitingReaders, waitingWriters>>
-----------------------------------------------------------------------------
Proceed(p) ==
  WakeReader(p) \/ RetryRead(p) \/ WakeWriter(p) \/ RetryWrite(p) \/ Unlock(p)

LockNext == \E p \in Proc : LockForRead(p) \/ LockForWrite(p) \/ Proceed(p)

LockSpec == LockInit /\ [][LockNext]_lockVars

\* A thread that is within an operation goes on, and who holds the lock releases
\* it; nobody has to lock it.
LockFairSpec == LockSpec /\ \A p \in Proc : WF_lockVars(Proceed(p))
-----------------------------------------------------------------------------
Readers == {p \in Proc : at[p] = "reading"}
Writers == {p \in Proc : at[p] = "writing"}
AcquiringToRead == {p \in Proc : at[p] = "readWait"}
WaitingToRead == {p \in Proc : at[p] \in {"readWait", "readWoken"}}
WaitingToWrite == {p \in Proc : at[p] \in {"writeWait", "writeWoken"}}

Lock == INSTANCE ReadWriteLock WITH readers <- Readers, writers <- Writers

\* Whatever threads steal one another's wake-ups, the lock grants what a lock for
\* readers and writers may grant.
ImplementsLock == Lock!Spec

\* The counts in shared memory are those of the threads, so unlock tells readers
\* from a writer by the sign alone.
CountsExact ==
  /\ accessCount = IF Writers # {} THEN -1 ELSE Cardinality(Readers)
  /\ Writers # {} => Readers = {} /\ Cardinality(Writers) = 1
  /\ waitingReaders = Cardinality(WaitingToRead)
  /\ waitingWriters = Cardinality(WaitingToWrite)

\* No wake-up is lost: while the lock is free, a waiting writer has one on its way
\* (in the semaphore, or taken by a writer that is about to look again).
WriterHandover ==
  accessCount = 0 /\ waitingWriters > 0
  => writerWait > 0 \/ \E p \in Proc : at[p] = "writeWoken"

\* When no writer waits, no reader is left waiting on a lock that admits readers.
ReaderHandover ==
  accessCount >= 0 /\ waitingWriters = 0
  => Cardinality(AcquiringToRead) <= readerWait

\* A waiting writer gets the lock unless other writers take it forever: readers
\* cannot keep it out.
WritersBeforeReaders ==
  \A p \in Proc :
    \/ at[p] = "writeWait" ~> at[p] = "writing"
    \/ []<>(Writers \ {p} # {})

\* A waiting reader gets the lock unless writers take it forever.
ReadersNotForgotten ==
  \A p \in Proc : at[p] = "readWait" ~> at[p] = "reading" \/ []<>(Writers # {})
=============================================================================
