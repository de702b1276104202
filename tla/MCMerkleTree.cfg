SPECIFICATION FairSpec
CONSTANTS
  Depth = 2
  Block = {x, y}
  MaxFile = 5
  Blank = Blank
  Null = Null
  NoHash = NoHash
INVARIANTS
  TypeOK
  OutputFits
  LoopCovers
  MinHashesExact
  ChunkCheckExact
  HashesOfExact
PROPERTIES
  QueriesEnd
CHECK_DEADLOCK FALSE
