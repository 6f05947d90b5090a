CONSTANTS
  top = top
  dot = dot
  a = a
  file = file
  id = id
  h1 = h1
  h2 = h2
  index = index
  None = None
  Segments = {top, dot, a, file, id}
  Dynamic = {id}
  Callbacks = {h1, h2}
  Methods = {"GET", "POST"}
  Routes <- MCRoutes
  URIs <- MCURIs
  Trees <- MCTrees
  Base <- MCBase
  Hidden = {dot}
  Dotted = {dot, file}
  InitialSize = 4
  Slash <- MCSlash
  Index = index
  MaxRoutes = 3
SPECIFICATION Spec
SYMMETRY Symmetry
INVARIANTS TypeOK FindsFirst OneResponse ListsVisible ArraysSound
PROPERTIES NeverStolen
