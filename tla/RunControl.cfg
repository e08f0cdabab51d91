SPECIFICATION FairSpec
CONSTANTS
  Run = {r1, r2}
  None = None
  Outcome = {"FINISHED"}
  MaxPolls = 2
CHECK_DEADLOCK FALSE
INVARIANTS
  ActiveIsWatched
  ActiveCanBeStopped
  SettledStatusIsOutcome
PROPERTY
  PollsEnd
