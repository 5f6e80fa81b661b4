SPECIFICATION StoreSpec
CONSTANTS
  m1 = m1
  m2 = m2
  f1 = f1
  f2 = f2
  NoFile = NoFile
  Managers = {m1, m2}
  Files = {f1, f2}
  OldFiles = {f1}
  MaxEntries = 4
  Tears = TRUE
  Failing = {f2}
SYMMETRY Symmetry
CHECK_DEADLOCK FALSE
INVARIANTS
  StoreTypeOK
  ConversationOnDisk
  OneTree
PROPERTIES
  ImplementsLog
