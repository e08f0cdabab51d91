---------------------------- MODULE RunLifecycle ----------------------------
(***************************************************************************)
(* What a test run promises whoever started it: it is running from the     *)
(* moment it is registered, it ends once, and the state and the counts it  *)
(* ended with are never revised.  TestRunService implements it.            *)
(***************************************************************************)
CONSTANTS
  Run,      \* run ids
  Result,   \* what may be reported of a run that has ended
  NoResult  \* nothing is reported yet

VARIABLES
  phase,    \* "absent", "running" or "ended"
  result    \* what is reported of a run that has ended

vars == <<phase, result>>

Init ==
  /\ phase = [r \in Run |-> "absent"]
  /\ result = [r \in Run |-> NoResult]

Start(r) ==
  /\ phase[r] = "absent"
  /\ phase' = [phase EXCEPT ![r] = "running"]
  /\ UNCHANGED result

End(r) ==
  /\ phase[r] = "running"
  /\ phase' = [phase EXCEPT ![r] = "ended"]
  /\ result'[r] \in Result
  /\ result' = [result EXCEPT ![r] = result'[r]]

Next == \E r \in Run : Start(r) \/ End(r)

Spec == Init /\ [][Next]_vars
=============================================================================
