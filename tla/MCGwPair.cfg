SPECIFICATION Spec
CONSTANTS
  RateLimit = 3
  Second = 1
  IdemSlots = 2
  Conns = {c1, c2}
  NoConn = none
  NSlots = 2
  Scripts <- Handover
  RecvCap = 2
  SendCap = 4
  RespCells = 2
  SndBuf = 1
  Faults = {"accept", "add", "wait", "full", "stop", "reset"}
  MaxTime = 0
INVARIANTS SlotsInv OnlyAuthenticatedHear EventsCurrent ResponsesWhole
CHECK_DEADLOCK FALSE
