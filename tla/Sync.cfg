SPECIFICATION Spec
SYMMETRY Symmetry
CONSTANTS
  Devices = {d, e}
  MaxDepth = 2
  Clients = {d}
  Slots = {s, t}
  Paths <- MCPaths
  Chunks = {c}
  None = None
  Faults = TRUE
  ReqClocks <- MCClocks
  Lists <- MCLists
  Batches <- MCBatches
  MaxIds = 3
  MaxChanges = 3
INVARIANT SyncInv
INVARIANT ClocksExact
INVARIANT DiffsExact
PROPERTY NoLostModify
