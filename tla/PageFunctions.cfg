SPECIFICATION CallSpec
CONSTANTS
  LengthOf <- MCLengthOf
  Spelled <- MCSpelled
  Decoded <- MCDecoded
  Wild = {"*", "{n}"}
  Star = "*"
  None = None
  Nothing = None
  Errors <- ValidateBodyAgainstSchema
  Lower <- MCLower
  NoArg = NoArg
  Blank = Blank
  English <- MCEnglish
  Russian <- MCRussian
  Url <- MCUrl
  Pattern <- MCPattern
  Packets <- MCPackets
  RuleLists <- MCRuleLists
  Template <- MCTemplate
  Headers <- MCHeaders
  Time = {0, 999, 1000, 300500}
  Window = {1, 300, 300000}
  Segments <- MCSegments
  Markup <- MCMarkup
  Duration = {0, 1, 2, 3, 5}
  Count = {0, 1, 2, 4, 5, 9, 10, 11, 12, 14, 15, 19, 20, 21, 22, 25, 100, 101, 111, 112, 121}
  Nodes <- MCNodes
  LabelKey = {"k1", "k2", "k3"}
  BodyCalls <- MCBodyCalls
CHECK_DEADLOCK FALSE
INVARIANTS
  RulesAreAppliedRight
  LinksAreFilledIn
  LayoutIsFaithful
  LanguagesAreKept
  ErrorsAreFoundAndMarked
