CONSTANTS
  Client = {c1}
  Proc = {p1}
  None = None
  Backlog = 1
  Elapsed = {0, 50}
SPECIFICATION StartSpec
INVARIANT DeadlineKept
