SPECIFICATION FairSpec
CONSTANTS
  s1 = s1
  s2 = s2
  rA = rA
  f1 = f1
  f2 = f2
  Session = {s1, s2}
  Run = {rA, f1, f2}
  Fallback <- MCFallback
  Carried <- MCCarried
  MaxMessages <- MCMaxMessages
  Nobody = Nobody
CHECK_DEADLOCK FALSE
INVARIANTS
  OnlyCarriedRunsAreRunning
  CountsAreRight
  StoredPacketsAreListed
PROPERTY
  ClosingFinishesEveryRun
