SPECIFICATION Spec
CONSTANTS
  Keys = {k1}
  Readers = {r1}
  MaxCommits = 4
  MaxBatch = 2
  QueueCapacity = 1
  Crashes = TRUE
CHECK_DEADLOCK FALSE

INVARIANTS
  TypeOK
  DepthCountsQueue
PROPERTIES
  UpdatesDrain
  OnlyKnownLosses
