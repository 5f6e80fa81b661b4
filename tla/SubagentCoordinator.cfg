SPECIFICATION CoordinatorSpec
CONSTANTS
  a1 = a1
  t1 = t1
  t2 = t2
  i1 = i1
  h1 = h1
  h2 = h2
  NoHandle = NoHandle
  NoId = NoId
  NoTracker = NoTracker
  Actors = {a1, t1, t2}
  Trackers = {t1, t2}
  Ids = {i1}
  Handles = {h1, h2}
  MaxRestarts = 0
INVARIANTS
  WokenSeesEnd
  AgentReleased
PROPERTIES
  ImplementsLifecycle
