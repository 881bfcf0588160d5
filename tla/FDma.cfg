SPECIFICATION Spec
CONSTANTS
  WordBytes = 2
  Depth = 2
  Length = 3
  Requests <- MCRequests
  Orderly = TRUE
  Used <- MCUsed
INVARIANT WriteFromBase
