SPECIFICATION Spec
CONSTANTS
  o1 = o1
  s1 = s1
  NoTodo = NoTodo
  SessionSteers = {s1}
  SessionFollows = {}
  LoopSteers = {}
  LoopFollows = {}
  SteerMode = "All"
  FollowMode = "All"
  SteerCapacity = 2
  FollowCapacity = 1
  AutoMode = FALSE
  Outcomes = {"text", "calls", "closed", "retryable", "fatal", "aborted", "error", "reordered", "interrupt", "cancelled"}
  Decisions = {"none", "end", "continue"}
  MaxRetries = 1
  NudgeThreshold = 2
  MaxNudges = 1
  MaxReminders = 1
  TodoSets = {o1}
  InterruptCap = 1
INVARIANTS
  RetryBudget
  ContinueHonoured
PROPERTIES
  StopEndsRun
  LoopExitsNaturally
