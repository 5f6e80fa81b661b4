SPECIFICATION FairPersistSpec
CONSTANTS
  NoSession = NoSession
  Sessions = {1, 2}
  MaxMessages = 4
  KeepRecent = {1, 3}
  MaxChanges = 1
CHECK_DEADLOCK FALSE
INVARIANTS
  OneRun
  SavedOnceInOrder
  NothingLost
PROPERTIES
  PromptReleased
