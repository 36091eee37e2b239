SPECIFICATION LiveFairSpec
CONSTANTS
  N = 3
  Gated = {1, 3}
  ParallelSafe = {2}
  Request = "ap1"
  Commands <- Stray
  MaxSends = 2
  Window = 1
INVARIANTS
  SerialNeverOverlaps ReturnsSettled TickCanWake
PROPERTIES
  ImplementsToolBatch BatchReturns
