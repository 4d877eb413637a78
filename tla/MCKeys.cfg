CONSTANTS
  up = up
  h1 = h1
  h2 = h2
  h3 = h3
  c1 = c1
  Server = up
  Handlers = {h1, h2, h3}
  Commands = {c1}
  Does <- MCDoes
  MaxKeys = 3
SPECIFICATION KSpec
CHECK_DEADLOCK FALSE
INVARIANTS
  NewestIsPublished
  CommandsCanSign
PROPERTY PublishedAreKept
