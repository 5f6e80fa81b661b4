SPECIFICATION VoteSpec
CONSTANTS
  no = no
  unknown = unknown
  yes = yes
  id = id
  Size = 2
  Groups = {g1, g2}
  Steps = {s1}
  VoteIds = {v1, v2}
  StepIds = {id}
  StepId <- OneId
  Needed <- OneVote
  Responses = {no, unknown, yes}
  Options <- ListedOptions
  Contained <- ContainedOptions
  Silence = Silence
CHECK_DEADLOCK FALSE
INVARIANTS
  DecidedByAnswers
