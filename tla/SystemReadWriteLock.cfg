CONSTANTS
  Proc = {p1, p2, p3, p4}
  MaxValue = 5
SPECIFICATION LockFairSpec
INVARIANT WriterHandover
PROPERTIES ImplementsLock WritersBeforeReaders ReadersNotForgotten
