------------------------------- MODULE LiveFeed -------------------------------
(***************************************************************************)
(* What the live streams promise the tabs that read them: from the moment  *)
(* it joins until it ends, for good, a stream brings the packets of each   *)
(* publisher one after the other, none left out and none twice, and no     *)
(* publisher is ahead of the streams that live by more than one packet.    *)
(* TrafficStream implements it.                                            *)
(***************************************************************************)
EXTENDS Naturals, Sequences, SequencesExt

CONSTANTS Stream, Publisher

VARIABLES
  published,  \* how many packets each publisher has published
  line,       \* each stream: "new", "live" or "over"
  since,      \* what had been published when the stream joined
  got         \* the packets of each publisher that the stream has brought

vars == <<published, line, since, got>>

Init ==
  /\ published = [p \in Publisher |-> 0]
  /\ line = [s \in Stream |-> "new"]
  /\ since = [s \in Stream |-> published]
  /\ got = [s \in Stream |-> [p \in Publisher |-> <<>>]]

\* The last packet of p that s has brought or had no claim to.
Reached(s, p) == IF got[s][p] = <<>> THEN since[s][p] ELSE Last(got[s][p])

Publish(p) ==
  /\ \A s \in Stream : line[s] = "live" => Reached(s, p) = published[p]
  /\ published' = [published EXCEPT ![p] = @ + 1]
  /\ UNCHANGED <<line, since, got>>

Join(s) ==
  /\ line[s] = "new"
  /\ line' = [line EXCEPT ![s] = "live"]
  /\ since' = [since EXCEPT ![s] = published]
  /\ UNCHANGED <<published, got>>

\* The packet that was being published when the stream joined may come, too.
Bring(s, p) ==
  /\ line[s] = "live"
  /\ \/ Reached(s, p) + 1 = published[p]
     \/ got[s][p] = <<>> /\ since[s][p] = published[p]
  /\ got' = [got EXCEPT ![s][p] = Append(@, published[p])]
  /\ UNCHANGED <<published, line, since>>

End(s) ==
  /\ line[s] = "live"
  /\ line' = [line EXCEPT ![s] = "over"]
  /\ UNCHANGED <<published, since, got>>

Next ==
  \/ \E p \in Publisher : Publish(p)
  \/ \E s \in Stream : Join(s) \/ End(s) \/ \E p \in Publisher : Bring(s, p)

Spec == Init /\ [][Next]_vars
==============================================================================
