SPECIFICATION Spec
CONSTANTS
  Goroutines = {g1, g2}
  Scopes = {s1, s2}
  Functions = {f1}
  Objects = {map, ch}
  Channels = {ch}
  MaxBlocks = 1
  NoOne = NoOne
SYMMETRY Sym
INVARIANTS CleanupsExact ExitCleans MetricsExact
PROPERTIES ImplementsLending
CHECK_DEADLOCK FALSE
