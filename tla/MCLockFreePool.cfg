SPECIFICATION FairSpec
CONSTANTS
  Nodes = {n1, n2, n3}
  NULL = null
  Threads = {t1, t2}
  Allocators = {t1}
  MaxBatch = 2
  CountMod = 4
INVARIANTS IndInv CountersAgree
PROPERTIES AllocReturns
