CONSTANTS
  s1 = s1
  s2 = s2
  b2 = b2
  b3 = b3
  b3b = b3b
  i1 = i1
  i2 = i2
  c1 = c1
  c2 = c2
  q1 = q1
  MaxRapidFailures = 3
  MaxSessions = 1
  Openers = {b2, b3, b3b}
  Knows <- MCKnows
  Statements = 2
  Starts = {s1, s2}
  MaxDamage = 1
  Hostnames = {"team.example", "10.0.0.7"}
  MaxPairs = 5
  MaxAges = 1
  MaxRemoved = 1
  Creates = {c1, c2}
  Ids = {i1, i2}
  Names = {"n", i1}
  Writes = {"w"}
  Questions = {q1}
  MaxDeaths = 1
  MaxMessage = 3
  MaxBuffered = 1
  MaxCalls = 1
  MaxSaid = 3
  Early = FALSE
  a1 = a1
  a2 = a2
  Panels = {a1, a2}
  Freshness = 2
  MaxMoment = 4
  MaxGathers = 3
SPECIFICATION Spec
CHECK_DEADLOCK FALSE
INVARIANTS
  NoServerLeftBehind
  SchemaIsWhole
  OnlyThePinnedBuildRuns
  ShownChainsToTheAuthority
  ReadyIsWhole
  MessagesArriveWhole
  StatusIsShared
PROPERTIES
  UpEnds
  EveryRequestIsRead
  CallsEnd
  TheLostAreLetGo
