CONSTANTS
  Manager = {m1, m2}
  NoManager = NoManager
  Reply = {r1, r2}
  NoReply = NoReply
  SameThread = TRUE
SPECIFICATION FairOperations
INVARIANTS EachRequestOnce EngagedIsServed
PROPERTIES ReplyInOrder CompleteUnlessAborted
