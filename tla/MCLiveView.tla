----------------------------- MODULE MCLiveView -----------------------------
(* Small instances of LiveView for TLC. *)
EXTENDS LiveView, TLC

CONSTANTS a1, a2, b1, A, B

\* Up to two packets of run A and one of run B.
MCRunOf == [p \in Packet |-> IF p = b1 THEN B ELSE A]
==============================================================================
