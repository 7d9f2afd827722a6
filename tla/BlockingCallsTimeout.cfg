CONSTANTS
  MethodCall = {m1}
  PropertyRead = {p1}
  Signal = {s1}
  NoCall = NoCall
SPECIFICATION Spec
PROPERTIES TimedOutCallsUnanswered
CHECK_DEADLOCK FALSE
