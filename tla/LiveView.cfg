SPECIFICATION Spec
CONSTANTS
  a1 = a1
  a2 = a2
  b1 = b1
  A = A
  B = B
  Packet = {a1, b1}
  Run = {A, B}
  RunOf <- MCRunOf
  All = All
  Malformed = {a1}
  Load = {l1, l2}
  Limit = 2
CHECK_DEADLOCK FALSE
INVARIANTS
  ListedOnce
  SettledListIsComplete
PROPERTY
  IsAPacketList
