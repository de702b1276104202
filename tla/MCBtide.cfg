SPECIFICATION BtideFairSpec
CONSTANTS
  Peer = {p1, p2}
  Addr = {a1}
  Fd = {3, 4}
  Head = Head
  Null = Null
  NoAddr = NoAddr
  OneAtATime = FALSE
  PORTS = 8
  Numbers <- GivenNumbers
  Wild = Wild
  BACKLOG = 0
  MaxLines = 4
INVARIANTS
  BtideTypeOK
  BindsGivenPort
  OnlyAnEarlyQuitCrashes
  DescriptorsAccounted
  InboundEverBounded
PROPERTIES
  PeersAmongTheRest
  OnlyTheLeakedLockStops
  EveryThreadEnds
CHECK_DEADLOCK FALSE
