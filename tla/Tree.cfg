SPECIFICATION Spec
CONSTANTS
  Workers = {v, w}
  Names = {1, 2}
  Root = Root
  None = None
  Seeds <- MCSeeds
  CopyLimit = 2
  WalkLimit = 2
  MaxIds = 7
  MaxRequests = 2
  FKModes = {TRUE, FALSE}
  Tokens = {t}
  Paths <- MCPaths
SYMMETRY MCSymmetry
INVARIANT TreeInv
INVARIANT ContentReachable
INVARIANT RefsCover
INVARIANT FolderPages
INVARIANT CopyComplete
INVARIANT WalkExact
PROPERTY LockRespected
CHECK_DEADLOCK FALSE
