SPECIFICATION MempoolSpec
CONSTANTS
  Users = {t1, t2}
  NumArenas = 2
  TotalSize = 26
  ArenaStruct = 2
  Page = 4
  Line = 2
  HugePage = 8
  NodeSize = 3
  Sizes = {1, 3}
  MaxAllocs = 4
  MaxPools = 2
SYMMETRY ThreadSymmetry
INVARIANTS ArenaInv BlocksDisjoint
CHECK_DEADLOCK FALSE
