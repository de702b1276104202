SPECIFICATION Spec
CONSTANTS
  Depth = 2
  Block = {x, y}
  MaxFile = 4
  Blank = Blank
  Null = Null
  NoHash = NoHash
SYMMETRY Symmetry
INVARIANTS
  HalfFileInChunks
CHECK_DEADLOCK FALSE
