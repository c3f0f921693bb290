SPECIFICATION Spec
CONSTANTS
  Library <- MCLibrary
  OtherPrograms <- MCOtherPrograms
  Callees <- MCCallees
  MaxCode = 5
INVARIANTS SummariesExact Sound
PROPERTY SummariesTerminate
CHECK_DEADLOCK FALSE
