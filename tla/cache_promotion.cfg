SPECIFICATION Spec
CONSTANTS
  Goroutines = {g1}
  Keys = {k1, k2}
  Values = {v1, v2}
  Long = {v2}
  LongLength = 3
  Length <- MCLength
  MaxGenBytes = 6
  Missing = Missing
PROPERTIES GetAnswersStored
CHECK_DEADLOCK FALSE
