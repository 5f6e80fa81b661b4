SPECIFICATION Spec
CONSTANTS
  a1 = a1
  a2 = a2
  i1 = i1
  h1 = h1
  h2 = h2
  NoHandle = NoHandle
  NoId = NoId
  Actors = {a1, a2}
  Ids = {i1}
  Handles = {h1, h2}
  MaxRestarts = 1
INVARIANTS
  TypeOK
  AtMostOneRun
  RunningIsBacked
  RestartsBounded
PROPERTIES
  RunningSettles
