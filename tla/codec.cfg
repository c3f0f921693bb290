CONSTANTS
  Len16 = 2
  Len32 = 3
  Len64 = 4
  WordBits = 29
  Long = {255, 256, 65536}
  MaxItems = 2
  MaxBytes = 48
  SwarBound = 40
  Inputs <- MCInputs
SPECIFICATION Spec
INVARIANTS ReadsBack ReadsAll CursorSound ImplementationsAgree
