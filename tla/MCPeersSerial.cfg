SPECIFICATION Spec
CONSTANTS
  Peer = {p1, p2, p3, p4}
  Addr = {a1, a2}
  Fd = {3, 4}
  Head = Head
  Null = Null
  NoAddr = NoAddr
  OneAtATime = TRUE
SYMMETRY Symmetry
INVARIANTS
  ListTracksEveryPeer
  MemorySafe
PROPERTIES
  ImplementsRegistry
CHECK_DEADLOCK FALSE
