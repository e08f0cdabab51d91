-------------------------- MODULE MCPacketRepository --------------------------
(* Small instances of PacketRepository for TLC. *)
EXTENDS PacketRepository, TLC

CONSTANTS p1, p2, p3, p4, rA, rB

\* Two packets of each run.
MCPackets == {p1, p2, p3, p4}
MCRunOf == (p1 :> rA) @@ (p2 :> rB) @@ (p3 :> rA) @@ (p4 :> rB)

\* Packets of one run are interchangeable.
MCSymmetry == Permutations({p1, p3}) \cup Permutations({p2, p4})
=============================================================================
