SPECIFICATION Spec
CONSTANTS
  BLOCK = 2
  LEN = 1
  Starts = {0}
  MaxSize = 6
  BFLEN = 4
  WIDTH = 16
  Tables <- MCTables
  Files <- MCFiles
INVARIANTS
  LeavesExact
  OnlyWrappedSumsEscape
  TiledLeavesWritten
CHECK_DEADLOCK FALSE
