CONSTANTS
  c1 = c1
  c2 = c2
  c3 = c3
  None = None
  index = index
  other = other
  Conns = {c1, c2, c3}
  Paths = {index, other}
  Index = index
  Test = other
  Garbage <- MCGarbage
  Sizes <- MCSizes
  Accepts = 1
  NumFds = 10
  CacheCap = 1
  MapSlots = 2
  HdrLen = 1
  SpliceMax = 2
  Modulus = 8
  Active = 2
  Requests <- Gets
  Faulty = {}
  Shorts = {}
SPECIFICATION Spec
SYMMETRY ConnSymmetry
INVARIANTS ClientIsolated CacheSound
