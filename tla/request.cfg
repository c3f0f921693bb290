SPECIFICATION Spec
CONSTANTS
  Users = {g1, g2}
  Keys = {k}
  MinSlab = 2
  MaxSlab = 6
  PageSize = 4
  Slack = 1
  Buffers = {b1, b2}
  BorrowSizes = {1, 2}
  MaxRetain = 2
  ContentLengths = {0, 1, 3}
  DefaultCap = 1
  LargestCap = 2
  TmpSize = 2
  MaxBody = 3
  MaxRequests = 3
  NoKey = NoKey
  Nobody = Nobody
SYMMETRY Sym
INVARIANTS CountersExact SlabFitsSite BodyWhole BorrowPrivate
CHECK_DEADLOCK FALSE
