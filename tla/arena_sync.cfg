SPECIFICATION TxSpec
CONSTANTS
  Goroutines = {g1, g2}
  Requests <- MCSmall
  ChunkSize = 2
  MaxCap = 5
  Geometric = TRUE
  MaxChunkSize = 4
  MarkModulus = 16
  Bases = {0}
  Slots = {1}
  TxSlot = 1
  ClientSync = TRUE
  UseAfterClose = FALSE
  MaxChunks = 3
  MaxAllocs = 3
  NoOne = NoOne
SYMMETRY Sym
INVARIANTS NoSlicePanic CloseReleasesAll GrowthSound FailedTransactionRestores
PROPERTIES KeepsOlder
