SPECIFICATION Spec
CONSTANTS
  MaxHashes = 3
  MaxChunks = 4
INVARIANTS
  TypeOK
  GoodPackageServed
  
CHECK_DEADLOCK FALSE
