SPECIFICATION Spec
CONSTANTS
  Peer = {p1, p2}
  Addr = {a1, a2}
  Fd = {3, 4}
  Head = Head
  Null = Null
  NoAddr = NoAddr
  OneAtATime = FALSE
INVARIANTS
  ListTracksEveryPeer
CHECK_DEADLOCK FALSE
