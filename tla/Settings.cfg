SPECIFICATION Spec
CONSTANTS
  p1 = p1
  r1 = r1
  r2 = r2
  c1 = c1
  c2 = c2
  g1 = g1
  m1 = m1
  u1 = u1
  u2 = u2
  h1 = h1
  t1 = t1
  t2 = t2
  SchemaId = {r1}
  LocalSchemaId = {m1}
  DashId = {g1}
  LocalDashId = {g2}
  Content = {c1, c2}
  Offers <- MCOffers
  Packet = {p1}
  None = None
  MaxCommands = 5
  Url = {u1, u2}
  Served <- MCServed
  Fetch = {f1, f2}
  Throws <- MCThrows
  Header = {h1}
  TraceUrl = {t1, t2}
  Seed <- MCSeed
  Window = {5, 10}
  DefaultWindow = 5
  MaxTraceLinks = 2
SYMMETRY FetchesAreAlike
CHECK_DEADLOCK FALSE
INVARIANTS
  ShieldsAreFresh
  ValidatorFollowsSettings
  DrawnIsCurrent
  EditsAreMeant
  SourcesAreAsLastAsked
  StoredIsCurrent
