CONSTANTS
  BLOCK = 8
  LEN = 2
  Starts = {0, 100}
  MaxSize = 34
SPECIFICATION ShaSpec
INVARIANTS
  ShaTypeOK
  BufferFits
  StreamExact
  DigestExact
CHECK_DEADLOCK FALSE
