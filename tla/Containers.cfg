CONSTANTS
  n1 = n1
  n2 = n2
  n3 = n3
  d1 = d1
  d2 = d2
  d3 = d3
  d4 = d4
  x = x
  y = y
  None = None
  Nodes = {n1, n2, n3}
  Cells = {d1, d2, d3, d4}
  Items = {x, y}
  PoolSize = 3
  BumpSize = 4
  Base = 2
  Space = 8
  Requests <- MCRequests
  MaxLive = 5
  Word = 16
SPECIFICATION Spec
SYMMETRY Symmetry
INVARIANTS ListLinked QueueOwned GetRefuses GivenOnce
PROPERTIES ImplementsSequence
