SPECIFICATION Spec
CONSTANTS
  Goroutines = {g1, g2}
  NumShards = 4
  MaxPerShard = 1
  MaxArenas = 3
SYMMETRY Sym
INVARIANTS ArenasAccounted
PROPERTIES ImplementsLending
CHECK_DEADLOCK FALSE
