CONSTANTS
  MaxMessages = 4
  MaxRejected = 2
  MaxCalls = 2
  KeepRecent = {1, 2}
  MaxLag = 1
SPECIFICATION Spec
CHECK_DEADLOCK FALSE
INVARIANTS
  ToolsTypeOK
  OneRejection
PROPERTIES
  ConversationKept
  BatchAnswered
  CancelEndsBatch
