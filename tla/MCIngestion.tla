----------------------------- MODULE MCIngestion -----------------------------
(* Small instances of Ingestion for TLC. *)
EXTENDS Ingestion, TLC

CONSTANTS s1, s2, rA, f1, f2

MCFallback == (s1 :> f1) @@ (s2 :> f2)

\* Both clients stamp the same run id; the first also sends without one.
MCCarried == (s1 :> {rA, Nobody}) @@ (s2 :> {rA})

MCMaxMessages == (s1 :> 2) @@ (s2 :> 1)
==============================================================================
