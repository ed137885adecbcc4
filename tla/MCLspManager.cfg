SPECIFICATION Spec
CONSTANTS
  Call = {k1, k2, k3}
  NRoots = 2
  MaxInstances = 1
  MaxSpawns = 2
  MaxEvents = 1
  DenyCode = TRUE
  None = None
SYMMETRY Symmetry
INVARIANTS AnalyzersAreOwned CallsAreApart
