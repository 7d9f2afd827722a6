CONSTANTS
  Subscriber = {1, 2}
  Publisher = {1}
  Data = {1, 2}
  NoData = 0
  Key <- MCKey
  NameStarts <- MCNameStarts
  PathArgument <- MCPathArgument
  Filter <- MCFilter
  Value <- MCValue
  MaxSlots = 2
  MaxWrites = 1
SPECIFICATION EitherSpec
INVARIANTS HandlesCounted SlotsServed ChangesUnderWay RegistryServed
PROPERTY ChangesReported
CHECK_DEADLOCK FALSE
