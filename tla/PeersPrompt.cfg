SPECIFICATION FairSpec
CONSTANTS
  Peer = {p1}
  Addr = {a1}
  Fd = {3}
  Head = Head
  Null = Null
  NoAddr = NoAddr
  OneAtATime = FALSE
PROPERTIES
  EveryCommandReturns
CHECK_DEADLOCK FALSE
