CONSTANTS
  shared = shared
  private = private
  Entry <- MCEntry
  GlobalEntry <- MCGlobal
  Conn = {c1, c2}
  Obj = {o1, o2, o3}
  NoEntry = NoEntry
  NoObj = NoObj
  QuitOnLast = TRUE
SPECIFICATION FairSpec
INVARIANTS RefCountExact ServedByLiveObject IdleServiceQuits
PROPERTIES QuitOnlyWhenUnused RequestsSettled LeftClientsReclaimed
