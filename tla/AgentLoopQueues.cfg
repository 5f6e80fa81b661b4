SPECIFICATION Spec
CONSTANTS
  d1 = d1
  f1 = f1
  f2 = f2
  g1 = g1
  s1 = s1
  s2 = s2
  NoTodo = NoTodo
  SessionSteers = {s1, s2}
  SessionFollows = {f1, f2}
  LoopSteers = {d1}
  LoopFollows = {g1}
  SteerMode = "OneAtATime"
  FollowMode = "OneAtATime"
  SteerCapacity = 2
  FollowCapacity = 1
  AutoMode = FALSE
  Outcomes = {"text", "calls", "cancelled"}
  Decisions = {"none"}
  MaxRetries = 0
  NudgeThreshold = 1
  MaxNudges = 0
  MaxReminders = 0
  TodoSets = {}
  InterruptCap = 0
SYMMETRY Symmetry
INVARIANTS
  TypeOK
  ExactlyOnceInOrder
  FollowUpsWait
  NaturalEndDeliversAll
