SPECIFICATION FairSpec
CONSTANTS
  rA = rA
  rB = rB
  t1 = t1
  t2 = t2
  Run = {rA, rB}
  Sampler = {t1, t2}
  RunOf <- MCTwoOfOne
  Stoppable = {rB}
  Clearing = TRUE
  MaxSamples = 1
  Nobody = Nobody
CHECK_DEADLOCK FALSE
INVARIANT
  FinalCountsExact
PROPERTY
  EveryRunEnds
