CONSTANTS
  c1 = c1
  c2 = c2
  None = None
  index = index
  other = other
  Conns = {c1, c2}
  Paths = {index, other}
  Index = index
  Test = other
  Garbage <- MCGarbage
  Sizes <- MCSizes
  Accepts = 1
  NumFds = 9
  CacheCap = 2
  MapSlots = 2
  HdrLen = 2
  SpliceMax = 2
  Modulus = 8
  Active = 2
  Requests <- Mixed
  Faulty = {"accept", "recv", "openat", "statx", "send", "fill", "drain"}
  Shorts = {"send"}
SPECIFICATION Spec
SYMMETRY ConnSymmetry
INVARIANTS TypeOK OneOp RingBound CacheSound CachedOnce ServeSound InOrder Integrity
