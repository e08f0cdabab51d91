--------------------------- MODULE MCTrafficStream ---------------------------
(* Small instances of TrafficStream for TLC. *)
EXTENDS TrafficStream, TLC

CONSTANTS p, q

\* One publisher of two packets, and one that interferes with a third.
MCMaxPackets == [t \in Publisher |-> IF t = p THEN 2 ELSE 1]
==============================================================================
