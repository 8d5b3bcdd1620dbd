SPECIFICATION BenchSpec
CONSTANTS
  Cap = 4
  Producers = {bench, gateway}
  Consumers = {gate}
  Zero = zero
  MaxPush = 5
  Injector = bench
  NumOrders = 2
  BasePrice = 1
  Deltas <- MCDeltas
  Gaps = {1, 3}
  Us = 1
  Bins = 2
INVARIANTS RingInv 
PROPERTIES PushReturns
CHECK_DEADLOCK FALSE
