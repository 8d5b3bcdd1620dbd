SPECIFICATION MapTable
CONSTANTS
  Keys = {0, 1, 2, 3, 7}
  Values = {v1, v2}
  None = null
  Tombstone = tomb
  InitCap = 4
  MaxCap = 8
  FreshOnly = TRUE
INVARIANT TableInv
PROPERTIES MapSpec
