SPECIFICATION Spec
CONSTANTS
  Library <- MCLibrary
  OtherPrograms <- MCOtherPrograms
  Callees <- MCCallees
  MaxCode = 5
INVARIANT ProvenSafe
CHECK_DEADLOCK FALSE
