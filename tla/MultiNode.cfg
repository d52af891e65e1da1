CONSTANTS
  Group <- TwoGroups
  Req = {1, 2}
  Target <- Targets
  Retries = {1}
  SnapCount = 1
  Shift = 2
  Spaced = TRUE
  Limit <- Limits
SPECIFICATION Spec
CHECK_DEADLOCK FALSE
INVARIANTS  AnswerIsOwn
PROPERTY EveryRequestAnswered
