SPECIFICATION Spec
CONSTANTS
  App <- TxApps
  Second = 6
  MaxUint = 15
  MaxTime = 6
  MaxMsgs = 3
INVARIANT SentInOrder
CHECK_DEADLOCK FALSE
