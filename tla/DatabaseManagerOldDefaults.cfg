CONSTANTS
  here = here
  there = there
  old = old
  new = new
  iface = iface
  Proc = {p1}
  Location = {here, there}
  Service = {old, new}
  Interface = {iface}
  Version = {1, 2}
  Id = {i1, i2}
  NoId = NoId
  MetaData <- MCMetaData
  None = None
SPECIFICATION Spec
PROPERTY OnlyOldDefaultsReset
