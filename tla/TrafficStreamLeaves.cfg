SPECIFICATION FairSpec
CONSTANTS
  p = p
  q = q
  Stream = {a}
  Publisher = {p, q}
  MaxPackets <- MCMaxPackets
CHECK_DEADLOCK FALSE
PROPERTY
  BrokenStreamsLeave
