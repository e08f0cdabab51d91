-------------------------- MODULE MCTestRunService --------------------------
(* Small instances of TestRunService for TLC. *)
EXTENDS TestRunService, TLC

CONSTANTS rA, rB, t1, t2

\* One sampler thread of each run.
MCOneEach == (t1 :> rA) @@ (t2 :> rB)

\* Two sampler threads of one run, none of the other.
MCTwoOfOne == (t1 :> rA) @@ (t2 :> rA)
=============================================================================
