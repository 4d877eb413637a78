CONSTANTS
  s1 = s1
  k1 = k1
  k2 = k2
  k3 = k3
  m1 = m1
  root = root
  ann = ann
  bob = bob
  eve = eve
  bot = bot
  i1 = i1
  NoId = NoId
  Accounts = {root, ann, bob, eve, bot}
  Founders = {root, ann}
  Members = {bob, bot}
  Machines = {bot}
  SignIns = {s1}
  Calls = {k1, k2, k3}
  Commands = {m1}
  Does <- MCDoes
  Callers = {s1, k1, k2, k3}
  Turns = 1
SPECIFICATION ASpec
CHECK_DEADLOCK FALSE
INVARIANTS
  RevokedForGood
  TurnsAreSound
PROPERTIES
  AnOperatorRemains
  RepeatsChangeNothing
  EverybodyIsAnswered
