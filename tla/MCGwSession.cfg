SPECIFICATION FairSpec
CONSTANTS
  RateLimit = 3
  Second = 1
  IdemSlots = 2
  Conns = {c1}
  NoConn = none
  NSlots = 1
  Scripts <- Sessions
  RecvCap = 4
  SendCap = 4
  RespCells = 2
  SndBuf = 1
  Faults = {"reset", "idle", "malloc", "stop"}
  MaxTime = 1
INVARIANTS ForwardsExactly
PROPERTIES  ResponsesLeave MarkedEnd
CHECK_DEADLOCK FALSE
