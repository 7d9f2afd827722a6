CONSTANTS
  MethodCall = {m1, m2}
  PropertyRead = {p1}
  Signal = {s1}
  NoCall = NoCall
SPECIFICATION FairSpec
INVARIANTS ReturnFlagOwned FramingKept DisconnectWakesAll
PROPERTIES CallsReturn PackagesDispatched
CHECK_DEADLOCK FALSE
