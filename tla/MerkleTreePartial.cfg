SPECIFICATION Spec
CONSTANTS
  Depth = 2
  Block = {x, y}
  MaxFile = 4
  Blank = Blank
  Null = Null
  NoHash = NoHash
SYMMETRY Symmetry
INVARIANTS
  OnlyCompletedAnswered
CHECK_DEADLOCK FALSE
