CONSTANTS
  c1 = c1
  None = None
  index = index
  other = other
  Conns = {c1}
  Paths = {index, other}
  Index = index
  Test = other
  Garbage <- MCGarbage
  Sizes <- MCSizes
  Accepts = 1
  NumFds = 7
  CacheCap = 2
  MapSlots = 2
  HdrLen = 1
  SpliceMax = 2
  Modulus = 8
  Active = 2
  Requests <- Mixed
  Faulty = {}
  Shorts = {}
SPECIFICATION FairSpec
PROPERTIES EveryRequestAnswered
