SPECIFICATION Spec
CONSTANTS
  N = 2
  Gated = {1}
  Bulky = {2}
  Commands <- SteersAndInterrupt
  MaxTurns = 2
  RecentTurns = 0
  MaxSends = 3
  MaxChunks = 1
  MaxNested = 1
INVARIANTS
  LogTellsRun EndingIsRecorded SteersAreHeard
