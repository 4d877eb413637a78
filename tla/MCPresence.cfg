\* Two connections of one account and one of another; three installations,
\* two of them to a connection, two projects with one room each at most, two codes.
CONSTANTS
  c1 = c1
  c2 = c2
  c3 = c3
  ana = ana
  ben = ben
  Connections = {c1, c2, c3}
  Accounts = {ana, ben}
  AccountOf <- MCAccountOf
  Instances = {i1, i2, i3}
  Projects = {p1, p2}
  NoProject = NoProject
  Rooms = {r1, r2}
  Codes = {k1, k2}
  InstancesPerConnection = 2
  LiveSessionLimit = 1
SPECIFICATION Spec
CONSTRAINT MCBound
SYMMETRY MCSymmetry
INVARIANTS
  CarriedOnce
  RoomsAreLed
  ControlStaysPut
PROPERTIES
  PlacesAreNotInherited
  NobodyWalksIn
