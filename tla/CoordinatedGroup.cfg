SPECIFICATION FairGroupSpec
CONSTANTS
  Agents = {a1, a2}
  Priorities = {0, 1}
  MaxItems = 2
  MaxRetries = 1
  MaxPayloads = 2
  Users = {u}
  MaxChanges = 3
CHECK_DEADLOCK FALSE
INVARIANTS
  OneWorkerPerAttempt
  ReturnedIsSettled
PROPERTIES
  NothingOverwritten
  GroupReturns
