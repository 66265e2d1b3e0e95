SPECIFICATION FairSpec
CONSTANTS
  w1 = w1
  w2 = w2
  t1 = t1
  j1 = j1
  j2 = j2
  NoJob = NoJob
  Workers = {w1, w2}
  Jobs = {t1, j1, j2}
  Tasks = {t1}
  Priority <- MCPriority
  Handled = {t1, j1}
  MaxRetries <- MCMaxRetries
  DefaultRetries = 3
  ResultsCap = 1
  Items = {a, b}
  BatchSize = 1
  Retention = 1
  MaxRestarts = 1
  Watched = {p}
  Nested = {q}
  MaxChanges = 3
INVARIANT BackgroundInv
INVARIANT NoLostWakeup
PROPERTY NoTaskAfterStop
PROPERTY JobReported
PROPERTY WorkEnds
CHECK_DEADLOCK FALSE
