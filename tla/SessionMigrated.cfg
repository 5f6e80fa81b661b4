SPECIFICATION StoreSpec
CONSTANTS
  m1 = m1
  f1 = f1
  NoFile = NoFile
  Managers = {m1}
  Files = {f1}
  OldFiles = {f1}
  MaxEntries = 5
  Tears = FALSE
  Failing = {}
CHECK_DEADLOCK FALSE
PROPERTIES
  AppendOnly
