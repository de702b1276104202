SPECIFICATION FairSpec
CONSTANTS
  b1 = b1
  b2 = b2
  f = f
  x = x
  y = y
  Bpkg = {b1, b2}
  File = {f}
  Ident <- MCIdent
  DataOf <- MCDataOf
  FileOf <- MCFileOf
  Query <- MCQuery
  Block = {x, y, Zero}
  Zero = Zero
  Contents <- MCContents
  NoTree = NoTree
  Garbage = Garbage
  NoPackage = NoPackage
  MaxAdds = 3
INVARIANTS
  TypeOK
  
  EveryPartAccounted
PROPERTIES
  OnlyTheLeakedLockStops
  OnlyResizingDamages
CHECK_DEADLOCK FALSE
