SPECIFICATION FairSpec
CONSTANTS
  Goroutines = {g1, g2}
  Requests <- MCRequests
  ChunkSize = 2
  MaxCap = 4
  Geometric = TRUE
  MaxChunkSize = 4
  MarkModulus = 16
  Bases = {1}
  Slots = {1}
  ClientSync = FALSE
  UseAfterClose = TRUE
  MaxChunks = 2
  MaxAllocs = 1
  NoOne = NoOne
INVARIANTS TypeOK NoOverlap AddressesAligned ListSound
PROPERTIES ImplementsStack CallsReturn
