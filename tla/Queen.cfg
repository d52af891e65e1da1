CONSTANTS
  k1 = k1
  k2 = k2
  m1 = m1
  m2 = m2
  m3 = m3
  Cell = {k1, k2}
  Msg = {m1, m2, m3}
  MsgCells <- Shared
  Hive <- MCHive
  Addr = {}
  NoAddr = NoAddr
  MaxHiveID = 2
  MaxTerm = 0
  BatchSize = 2
  MaxBeeID = 5
  MaxRetry = 1
SPECIFICATION Spec
INVARIANTS  OneBeePerCell ExactlyOnce OrderKept
PROPERTIES  EveryMsgHandled
CHECK_DEADLOCK FALSE
