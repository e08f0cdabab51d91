------------------------------ MODULE MCSettings ------------------------------
(* A small instance of Settings for TLC. *)
EXTENDS Settings, TLC

CONSTANTS p1, r1, r2, c1, c2, g1, m1, u1, u2, h1, t1, t2

\* The server offers a rule that a URL offers with another content as well.
MCOffers ==
  {[schemas |-> r1 :> c1, dashboards |-> g1 :> [name |-> c1, scope |-> "global"]]}
MCServed == (u1 :> {r1 :> c1, r1 :> c2}) @@ (u2 :> {r1 :> c2})
\* The packet cannot be compared with one of the rules.
MCThrows == p1 :> {c2}
FetchesAreAlike == Permutations(Fetch)
MCSeed == [header |-> h1, url |-> t1]
==============================================================================
