SPECIFICATION Spec
CONSTANTS
  h1 = h1
  h2 = h2
  b1 = b1
  b2 = b2
  s1 = s1
  s2 = s2
  w1 = w1
  w2 = w2
  p1 = p1
  p2 = p2
  Janitor = Janitor
  Collector = Collector
  NoBody = NoBody
  NoManifest = NoManifest
  NoSession = NoSession
  NoFile = NoFile
  Sessions = {s1, s2}
  TotalChunks = 2
  Bodies = {b1, b2}
  Hashes = {h1, h2}
  HashesOf <- MCHashesOf
  FileIds = {f1, f2}
  PathOf <- MCSamePath
  RootPaths = {}
  Workers = {w1}
  ForeignKeys = {TRUE, FALSE}
  MaxActive = 1
  FaultKinds = {"error", "disconnect", "crash"}
  MaxFaults = 0
  MaxRef = 6
SYMMETRY MCFileSymmetry
INVARIANT TypeOK
INVARIANT RefCountCovers
CHECK_DEADLOCK FALSE
