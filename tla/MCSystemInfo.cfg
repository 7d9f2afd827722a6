CONSTANTS
  Modem = {"m"}
  Registration = {"registered", "unregistered"}
  NetDevice = {1, 2}
  ModeOf <- MCModeOf
  NetCondition = {"down", "up"}
  NetStart <- MCNetStart
  NetSignal <- MCNetSignal
  Ofono = {"absent", "present"}
  Udev = {TRUE, FALSE}
  MaxNetChanges = 1
  Battery = {0, 1}
  BatCondition <- MCBatCondition
  Supply <- MCSupply
  BatStart <- MCBatStart
  Kind = {"currentFlow"}
  BatIndex = {0, 1}
  UdevBuild = {TRUE, FALSE}
  MaxBatChanges = 1
  UPowerDevice = {"ac", "b"}
  UPowerBattery = {"b"}
  Lists <- MCLists
  Energy = {1, 2}
  State = {"charging"}
  UPowerIndex = {0, 1}
  MaxInterfaces = 5
  MaxUPowerChanges = 2
  InputDevice <- MCInputDevice
  InputName <- MCInputName
  EventName <- MCEventName
  InputTypes <- MCInputTypes
  Contains <- MCContains
  Manager = {"m1", "m2"}
  InputFilter = {{"mouse"}}
  Devices = 3
  ModelTypes <- MCModelTypes
  ModelFilter = {{"mouse"}, {"keyboard"}, {"mouse", "keyboard"}, {}}
  Monitors = 2
  MaxSensors = 2
  Measure <- MCReading
  DevModem = "m"
  Lookup = {"uniqueDeviceID"}
  MaxDevChanges = 1
  Handle = {1, 2}
  Quality = {1, 2}
  Adapters <- MCAdapters
  Polls = {TRUE, FALSE}
  Fails = {TRUE}
  MaxTimers = 2
  MaxInbox = 2
  MaxWinNetChanges = 1
  Answers <- MCAnswers
  WinBatIndex = {0, 1, 2}
  MaxWinBatChanges = 3
  QmlSignal = {"cellIdChanged", "networkNameChanged"}
  Obsolete = {"cellIdChanged"}
  MaxQmlChanges = 4
  User = {"a", "b"}
  SimSignal = {"remainingCapacity", "level"}
  SimIndex = {0, 1}
  Packets <- MCPackets
  Garbage = {0, 7}
  None = None
  MaxSimChanges = 3
SPECIFICATION Spec
INVARIANTS WatchesServed ReadsMatchReports DevicesFollowed BatteryFollowed
PROPERTY Followed
CHECK_DEADLOCK FALSE
