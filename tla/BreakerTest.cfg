SPECIFICATION StorageSpec
CONSTANTS
  Callers = {a, b, c}
  MaxFailures = 2
  MaxRetries = 1
  Modulus = 4
  Keys = {k, l}
  Ops = {a, b, c}
  Blocks = {k, l}
  Tasks = {a, b, c}
  Digest = Digest
  NoKey = NoKey
  Poly <- MCPoly
  MaskBits <- MCMaskBits
  Bytes <- MCBytes
  WindowSize = 2
  MinSize = 2
  MaxSize = 3
  MaxInput = 6
  Hashes = {x, z}
  Nodes = {k, l}
  Handles = {g, h}
  Zeros = z
  MaxData = 2
  MaxSaves = 2
  Nil = Nil
SYMMETRY MCSymmetry
INVARIANT OneTester
CHECK_DEADLOCK FALSE
