SPECIFICATION FairSpec
CONSTANTS
  Packages <- MCPackages
INVARIANTS FallsBack CompiledFilesComplete BulkObjectsDisjoint
PROPERTIES ToolExecReturns
CHECK_DEADLOCK FALSE
