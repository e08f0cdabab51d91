SPECIFICATION Spec
CONSTANTS
  p1 = p1
  p2 = p2
  p3 = p3
  A = A
  B = B
  latency = latency
  ok = ok
  bad = bad
  text = text
  x = x
  q = q
  Packet = {p1, p2, p3}
  Run = {A, B}
  RunOf <- MCRunOf
  None = None
  Arrival <- MCArrival
  SortKey = {latency}
  Value <- MCValue
  Elapsed <- MCElapsed
  Facet = {ok, bad}
  HasFacet <- MCHasFacet
  Group <- MCGroup
  Multi = {"status"}
  Typed = {text}
  Text = {x}
  Matching <- MCMatching
  Stored <- MCStored
  Undrawable <- MCUndrawable
  Load = {l1}
  Parts <- MCParts
  Formatted <- MCFormatted
  Query = {q}
  Found <- MCFound
  NoBody = NoBody
  MaxCommands = 3
CHECK_DEADLOCK FALSE
INVARIANTS
  TableIsCurrent
  ControlsAgree
  PaneFollowsSelection
  ViewerAgrees
