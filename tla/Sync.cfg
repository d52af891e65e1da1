CONSTANTS
  Req = {r1, r2}
  Worker = {w1}
  ChSize = 1
  MaxReplies = 2
  Nil = Nil
SPECIFICATION Spec
INVARIANTS AnswerTellsOutcome SendsDontBlock
PROPERTIES EveryCallReturns StoppedReported
CHECK_DEADLOCK FALSE
