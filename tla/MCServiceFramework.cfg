CONSTANTS
  here = here
  there = there
  elsewhere = elsewhere
  mine = mine
  yours = yours
  iface = iface
  other = other
  Location = {here, there, elsewhere}
  Service = {mine, yours}
  Interface = {iface, other}
  Version = {1, 2, 3}
  Id = {i1, i2, i3, i4, i5, i6}
  NoId = NoId
  NoObj = NoObj
  MetaData <- MCMetaData
  BusEntry = {"g", "i"}
  GlobalEntry = {"g"}
  BusClient = {"c1", "c2"}
  BusProxy = {"p1", "p2", "p3"}
  OwnerOf <- MCOwnerOf
  BusObj = {"o1", "o2"}
  NoEntry = "none"
  QuitOnLast = TRUE
  Proc = {"p", "l"}
  Listener = "l"
  FileService = {"s", "t"}
  MaxFiles = 2
  MaxFileChanges = 3
  Application = {1, 2}
  ScopeOf <- MCScopeOf
  ServiceName = {"n", "i", "g"}
  Plugin = {"a", "b", "c", "g"}
  Package <- MCPackage
  Generated <- MCGenerated
  MaxOperations = 3
  InterfaceName <- MCInterfaceName
  DocumentVersion <- MCDocumentVersion
  MaxElements = 7
  LoaderName = {"i"}
  LoaderDescriptor = {"d"}
  MaxLoaderChanges = 5
  ListElement = {"ServiceFilter", "ServiceList"}
  ListDescriptor = {"d", "e"}
  Criteria <- MCCriteria
  MaxListsChanges = 4
  Plain = {"int"}
  Custom = {"C"}
  BusMethods <- MCBusMethods
  BusProperties = {"p"}
  MaxSignals = 1
  SocketClient = {"a", "b"}
  SocketObj = {"o"}
  QObjectMethods <- MCQObjectMethods
  OwnMethods <- MCOwnMethods
  Fault = "errorUnrecoverableIPCFault"
  MaxMessages = 2
SPECIFICATION FrameworkSpec
INVARIANTS ImplementationsUnique DefaultsComplete BoundServed ShownIsCurrent RegisteredIsFit
PROPERTY Answered
CHECK_DEADLOCK FALSE
