SPECIFICATION Spec
CONSTANTS
  rA = rA
  rB = rB
  t1 = t1
  t2 = t2
  Run = {rA, rB}
  Sampler = {t1, t2}
  RunOf <- MCOneEach
  Stoppable = {rA, rB}
  Clearing = FALSE
  MaxSamples = 1
  Nobody = Nobody
CHECK_DEADLOCK FALSE
INVARIANT
  OnlyStoppedRunsAreHalted
