SPECIFICATION FairSpec
CONSTANTS
  RingBound = 2
  EntryCells = 2
  BufCells = 5
  BatchDrain = 2
  SyncOn = TRUE
  Faults = {"short", "error", "nosync", "nobuf", "kill", "power"}
  MaxAppend = 3
  MaxOpen = 2
INVARIANTS  SyncedSurvives BufferInv CloseIsDurable
 
CHECK_DEADLOCK FALSE
