CONSTANTS
  c1 = c1
  c2 = c2
  c3 = c3
  i1 = i1
  i2 = i2
  p1 = p1
  p2 = p2
  ana = ana
  ben = ben
  Connections = {c1, c2}
  Accounts = {ana, ben}
  AccountOf <- MCAccountOf
  Instances = {i1}
  Projects = {p1}
  NoProject = NoProject
  Rooms = {1}
  Codes = {k1}
  InstancesPerConnection = 1
  LiveSessionLimit = 1
  Operators = {}
  SlowPeers = {c1}
  SubscriptionLimit = 2
  Sends <- MCMoving
  MaxFrames = 6
SPECIFICATION DSpec
CHECK_DEADLOCK FALSE
PROPERTY UpStops
