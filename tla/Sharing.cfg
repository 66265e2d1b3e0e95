SPECIFICATION Spec
CONSTANTS
  m1 = m1
  m2 = m2
  x = x
  y = y
  c1 = c1
  c2 = c2
  Links = {l}
  Clients = {c1, c2}
  Headers <- MCHeaders
  Kinds <- MCKinds
  Manifests = {m1, m2}
  ChunksOf <- MCChunksOf
  SizeOf <- MCSizeOf
  SizeBytes <- MCSizeBytes
  None = None
  Limits = {1}
  MaxCount = 2
INVARIANT SharingInv
INVARIANT ServedJustified
INVARIANT SentExact
CHECK_DEADLOCK FALSE
