CONSTANTS
  x = x
  y = y
  a = a
  b = b
  d = d
  None = None
  Keys = {a, b, d}
  Vals = {x, y}
  Size = 4
  Hash <- MCHash
SPECIFICATION Spec
INVARIANTS Unique Findable RehashCleans
PROPERTIES ImplementsBoundedMap
