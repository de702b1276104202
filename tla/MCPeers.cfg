SPECIFICATION Spec
CONSTANTS
  Peer = {p1, p2, p3}
  Addr = {a1, a2}
  Fd = {3, 4, 5}
  Head = Head
  Null = Null
  NoAddr = NoAddr
  OneAtATime = FALSE
SYMMETRY Symmetry
INVARIANTS
  NoDanglingNext
  NextIsYounger
  CliCursorLive
  DescriptorsMatchPeers
  Inv
  DuplicatesOverlap
PROPERTIES
  OnlyAnEmptyListLeaks
CHECK_DEADLOCK FALSE
