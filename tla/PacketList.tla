------------------------------ MODULE PacketList ------------------------------
(***************************************************************************)
(* What the packet list of a tab promises its reader: it shows packets     *)
(* that have been captured, none of them twice; packets join it at its end *)
(* only, any number in one step, so that what stands in it stays where it  *)
(* stands; and it may be emptied, but never changes otherwise.  LiveView   *)
(* implements it.                                                          *)
(***************************************************************************)
EXTENDS Sequences, Functions, SequencesExt

CONSTANT Packet

VARIABLES
  list,       \* the packets shown
  captured    \* those captured so far

Init == list = <<>> /\ captured = {}

Capture ==
  /\ \E p \in Packet \ captured : captured' = captured \cup {p}
  /\ UNCHANGED list

Join ==
  /\ IsPrefix(list, list')
  /\ IsInjective(list') /\ Range(list') \subseteq captured
  /\ UNCHANGED captured

Empty == list' = <<>> /\ UNCHANGED captured

Next == Capture \/ Join \/ Empty

Spec == Init /\ [][Next]_<<list, captured>>
==============================================================================
