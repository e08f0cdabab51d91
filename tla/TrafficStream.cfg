SPECIFICATION Spec
CONSTANTS
  p = p
  q = q
  Stream = {a, b}
  Publisher = {p, q}
  MaxPackets <- MCMaxPackets
CHECK_DEADLOCK FALSE
INVARIANTS
  FailedStreamsGoOnce
  NothingIsMissed
PROPERTY
  IsALiveFeed
