SPECIFICATION Spec
CONSTANTS
  h1 = h1
  h2 = h2
  b1 = b1
  b2 = b2
  s1 = s1
  s2 = s2
  w1 = w1
  w2 = w2
  p1 = p1
  p2 = p2
  Janitor = Janitor
  Collector = Collector
  NoBody = NoBody
  NoManifest = NoManifest
  NoSession = NoSession
  NoFile = NoFile
  Sessions = {s1}
  TotalChunks = 2
  Bodies = {b1}
  Hashes = {h1}
  HashesOf <- MCHashesOne
  FileIds = {f1, f2}
  PathOf <- MCTwoPaths
  RootPaths = {p1}
  Workers = {w1, w2}
  ForeignKeys = {TRUE, FALSE}
  MaxActive = 2
  FaultKinds = {"error", "disconnect", "crash"}
  MaxFaults = 2
  MaxRef = 3
SYMMETRY MCSymmetry
INVARIANT NoOrphanFile
INVARIANT ManifestComplete
INVARIANT LinkedHasManifest
PROPERTY ContentStable
CHECK_DEADLOCK FALSE
