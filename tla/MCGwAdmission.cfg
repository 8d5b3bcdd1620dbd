SPECIFICATION Spec
CONSTANTS
  RateLimit = 2
  Second = 1
  IdemSlots = 2
  Conns = {c1, c2}
  Ids = {0, 1, 3}
  MaxTime = 3
  MaxOrders = 5
INVARIANTS RateInv DuplicateNeedsCollision 
CHECK_DEADLOCK FALSE
