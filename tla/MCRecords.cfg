CONSTANTS
  ann = ann
  bob = bob
  k1 = k1
  p1 = p1
  p2 = p2
  s1 = s1
  s2 = s2
  s3 = s3
  NoKey = NoKey
  Absent = Absent
  Limit = 2
  Budget = 3
  MaxTime = 2
  Authors = {ann, bob}
  ThreadIds = {11, 12, 13}
  Keys = {k1}
  Places = {p1, p2}
  MaxComments = 3
  RecordIds = {21, 22, 23}
  OverlayLimit = 2
  DecisionLimit = 2
  TrimSlack = 2
  MaxDecisions = 5
  Sessions = {s1, s2}
  IdentityRows = 3
  MaxStarts = 1
  MaxChanges = 3
  MaxWorking = 1
  i1 = i1
  i2 = i2
  c1 = c1
  c2 = c2
  q1 = q1
  Creates = {c1, c2}
  Ids = {i1, i2}
  Names = {"n", i1}
  Writes = {"w"}
  Questions = {q1}
  MaxDeaths = 1
  RosterIds = {31, 32, 33, 34}
  Usernames = {"u", "v", "w", "x"}
  t1 = t1
  t2 = t2
  x = x
  y = y
  Knockers = {t1, t2}
  Accounts = {ann, bob}
  Addresses = {x, y}
  FreeAttempts = 1
  LongestWait = 2
  ForgetAfter = 1
  MaxTracked = 2
  LastTick = 3
  Nowhere = Nowhere
  a1 = a1
  a2 = a2
  n1 = n1
  n2 = n2
  Commands = {n1, n2}
  Texts <- MCTexts
  Authorities = {a1, a2}
  MaxReissues = 1
  Unsaid = Unsaid
  LongestMessage = 1
  Unset = Unset
SPECIFICATION Spec
CHECK_DEADLOCK FALSE
INVARIANTS
  RetriesAreNotCollisions
  RepositoriesComeBackToTheirRow
  PagesAreWhole
  RepeatsFindTheirRow
  CallsCarryOneMessage
  ClosedIsClosed
PROPERTIES
  WaitsAreServed
  RefusalsOutlast
  CredentialsAreKept
