CONSTANTS
  k1 = k1
  k2 = k2
  m1 = m1
  m2 = m2
  Cell = {k1, k2}
  Msg = {m1, m2}
  MsgCell <- MCCell
  Start <- MCStart
  Hive <- MCHive
  Addr = {}
  NoAddr = NoAddr
  MaxHiveID = 2
  MaxTerm = 0
  BatchSize = 3
  MaxBeeID = 7
  Limit <- Limits
SPECIFICATION Spec
INVARIANTS NoUpdateLost HandoffFindsBee
PROPERTIES OnlyOwnerHandles EveryMigrationEnds EveryMsgHandled
CHECK_DEADLOCK FALSE
