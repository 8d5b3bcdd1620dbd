SPECIFICATION Spec
CONSTANTS
  Slabs <- MCSlabs
  Blocks <- MCBlocks
  NULL = null
  Data = data
  Threads = {t1, t2}
  Allocators = {t1}
  CountMod = 8
  Line = 4
  WarmSize = 8
  HotPerSlab = 8
  NumaPage = 3
  Sizes = {3}
  IntMax = 1
  MaxCalls = 5
INVARIANTS SlabInv CountersExact TierInv 
CHECK_DEADLOCK FALSE
