SPECIFICATION Spec
CONSTANTS
  Goroutines = {g1, g2}
  Keys = {k1, k2}
  Values = {v1, v2}
  Long = {}
  LongLength = 2
  Length <- MCLength
  MaxGenBytes = 4
  Missing = Missing
SYMMETRY Sym
INVARIANTS MapsSound
PROPERTIES ValuesStable SurvivesOneRotation ImplementsMap
CHECK_DEADLOCK FALSE
