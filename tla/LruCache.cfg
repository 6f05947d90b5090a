CONSTANTS
  n1 = n1
  n2 = n2
  n3 = n3
  n4 = n4
  n5 = n5
  n6 = n6
  k1 = k1
  k2 = k2
  k3 = k3
  k4 = k4
  None = None
  Keys = {k1, k2, k3, k4}
  Nodes = {n1, n2, n3, n4, n5, n6}
  Cap = 3
  MapSlots <- MCMapSlots
  Hash <- MCHash
SPECIFICATION Spec
SYMMETRY Symmetry
INVARIANTS ExactBeforeTailHit
PROPERTIES CutOffLeaks TouchesOnlyAfterTailHit ImplementsFileCache
