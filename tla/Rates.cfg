SPECIFICATION Spec
CONSTANTS
  App <- Apps
  Second = 6
  MaxUint = 15
  MaxTime = 6
  MaxMsgs = 3
INVARIANTS NoFatal RatesKept SentInOrder
PROPERTY EveryMsgSent
CHECK_DEADLOCK FALSE
