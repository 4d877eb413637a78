CONSTANTS
  r1 = r1
  r2 = r2
  a1 = a1
  a2 = a2
  g1 = g1
  x1 = x1
  n1 = n1
  p1 = p1
  d1 = d1
  Requests = {r1, r2, a1, a2, g1, x1}
  Sends <- MCOneName
  Names = {n1}
  Projects = {p1}
  ProjectOf <- MCProjectOf
  Digests = {d1}
  Limit = 3
  DiskFails = TRUE
SPECIFICATION Spec
CHECK_DEADLOCK FALSE
INVARIANTS
  FilesArriveWhole
  NothingLeftOnDisk
PROPERTY EveryReadEnds
