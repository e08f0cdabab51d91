---------------------------- MODULE PacketHistory ----------------------------
(***************************************************************************)
(* What the packet store promises its readers: one sequence of packets,    *)
(* oldest first, that only ever grows at the end, loses only its oldest    *)
(* packets, never holds a packet twice, and can be forgotten as a whole.   *)
(* PacketRepository implements it.                                         *)
(***************************************************************************)
EXTENDS Integers, Sequences, SequencesExt

CONSTANTS
  Packet,     \* the packets that may be kept
  Capacity,   \* the number of packets kept at most
  MaxLoad     \* bound on the packets one load appends

VARIABLE kept

\* The newest Capacity elements of s.
Newest(s) ==
  SubSeq(s, IF Len(s) > Capacity THEN Len(s) - Capacity + 1 ELSE 1, Len(s))

Init == kept = <<>>

\* A packet that is not kept is appended.
Arrive == \E p \in Packet \ Range(kept) : kept' = Newest(Append(kept, p))

\* Packets are appended in one step; the result still holds none twice.
Load ==
  \E s \in BoundedSeq(Packet, MaxLoad) :
    /\ kept' = Newest(kept \o s)
    /\ IsInjective(kept')

Forget == kept' = <<>>

Next == Arrive \/ Load \/ Forget

Spec == Init /\ [][Next]_kept
==============================================================================
