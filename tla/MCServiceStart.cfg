CONSTANTS
  Client = {c1, c2}
  Proc = {p1, p2, p3}
  None = None
  Backlog = 1
  Elapsed = {0}
SPECIFICATION StartSpec
SYMMETRY Symmetry
INVARIANTS SetupsConverge LoneSetupSucceeds WaitersWoken
