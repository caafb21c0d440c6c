SPECIFICATION Spec
CONSTANTS
  Tables <- MCTables
  SignBit = 8
  Unit = 2
  Addresses = {1, 6, 7, 8, 14, 16, 23, 24, 25}
  Channels = {0, 1}
  NONE = NONE
INVARIANTS TablesOutliveUse CheckIsRight DimmsFound
CHECK_DEADLOCK FALSE
