SPECIFICATION Spec
CONSTANTS
  p1 = p1
  p2 = p2
  p3 = p3
  p4 = p4
  rA = rA
  rB = rB
  Packet <- MCPackets
  NoPacket = NoPacket
  Run = {rA, rB}
  RunOf <- MCRunOf
  RingBufferSize = 3
  MaxFile = 3
SYMMETRY MCSymmetry
INVARIANTS
  IndexMatchesRing
  RingIsASetOfRecentPackets
  LoadAdds
  RecentHasNoGaps
PROPERTY
  IsAPacketHistory
