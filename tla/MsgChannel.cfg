CONSTANTS
  NoMsg = NoMsg
  BufSize = 3
  MaxMsgs = 11
  Msg <- MCMsg
SPECIFICATION Spec
PROPERTIES ImplementsFIFO EveryMsgReceived
CHECK_DEADLOCK FALSE
