CONSTANTS
  c1 = c1
  c2 = c2
  None = None
  index = index
  other = other
  Conns = {c1, c2}
  Paths = {index, other}
  Index = index
  Test = other
  Garbage <- MCGarbage
  Sizes <- LongSizes
  Accepts = 1
  NumFds = 6
  CacheCap = 2
  MapSlots = 2
  HdrLen = 1
  SpliceMax = 2
  Modulus = 8
  Active = 2
  Requests <- Routed
  Faulty = {"openat", "drain"}
  Shorts = {"fill"}
SPECIFICATION FairSpec
PROPERTIES Served AllAccepted
