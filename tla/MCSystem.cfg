SPECIFICATION FairSpec
CONSTANTS
  WordBytes = 2
  Depth = 2
  Length = 3
  Requests <- MCRequests
  Orderly = FALSE
  Used <- MCUsed
INVARIANTS TypeOK ReadInPlace ReadKept OneDmaIrq
PROPERTIES ReadReachesMemory
