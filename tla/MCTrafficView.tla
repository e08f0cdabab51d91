----------------------------- MODULE MCTrafficView -----------------------------
(* Small instances of TrafficView for TLC. *)
EXTENDS TrafficView, TLC

CONSTANTS p1, p2, p3, A, B, latency, ok, bad, text, x, q

MCArrival == SetToSeq(Packet)
MCRunOf == [p \in Packet |-> IF p = p3 THEN B ELSE A]
\* p1 and p3 compare equal; the longest packet is the second of run A.
MCElapsed == [p \in Packet |-> IF p = p2 THEN 3 ELSE 2]
MCValue == [k \in SortKey |-> MCElapsed]
MCHasFacet == [f \in Facet |-> IF f = ok THEN {p1, p2} ELSE {p3}]
MCGroup == [f \in Facet |-> "status"]
MCMatching == [f \in Typed |-> [v \in Text |-> {p2, p3}]]
\* An earlier visit left a text; the empty filter is one click away.
MCStored == {[facets |-> {}, typed |-> [f \in Typed |-> x]]}
\* Under some rules the second packet cannot be drawn.
MCUndrawable == {{}, {p2}}
\* The first packet has a body on either side, the second an answer only, the
\* third none; all but the first packet's request can be formatted.
MCParts == [p \in Packet |-> IF p = p1 THEN <<"request", "response">>
                             ELSE IF p = p2 THEN <<"response">> ELSE <<>>]
MCFormatted == {<<p1, "response">>, <<p2, "response">>}
MCFound == [s \in Query |-> [b \in MCFormatted |-> IF b[1] = p1 THEN 2 ELSE 0]]
==============================================================================
