SPECIFICATION ShmemSpec
CONSTANTS
  Procs = {p1, p2, p3}
  Size = 5
  Page = 4
  HeaderSize = 3
  MaxSegs = 2
  Crashes = 1
SYMMETRY ProcSymmetry
INVARIANTS HandlesInv UnlinksItsOwn
CHECK_DEADLOCK FALSE
