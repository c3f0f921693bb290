SPECIFICATION Spec
CONSTANTS
  Goroutines = {g1, g2}
  MaxObjects = 2
  NumNodes = 3
  Options <- MCOptions
SYMMETRY Sym
INVARIANTS PooledExactlyOnce StatsSound
PROPERTIES ImplementsLending HandsOutClean
CHECK_DEADLOCK FALSE
