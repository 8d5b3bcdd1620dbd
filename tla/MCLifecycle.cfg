SPECIFICATION FairSpec
CONSTANTS
  MatchingArg = {0, 1, 2, 3, 4, 8, 16}
  RiskThreads = 2
  MaxShards = 4
  Faults = {"mempool", "journal", "event_bus", "risk_state", "clearing", "md", "match", "seq", "gate", "gw"}
  Cap = 1
  SafeMode = TRUE
  MaxHealth = 1
  RingSize = 4
  LogLevel = 2
INVARIANTS  OrderPathHasReader LogComplete
PROPERTIES ShutsDown 
