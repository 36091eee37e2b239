SPECIFICATION FairAppSpec
CONSTANTS
  Attachments = {1, 2}
  QueueCapacity = 1
  Offered <- OneCall
  MaxItems = 6
  Window = 1
  FeedDepth = 1
  DrainDeep = 2
  DrainFlood = 3
  DrainRunEnd = 4
  Paced = TRUE
  Widths = {"wide", "narrow"}
  MaxRuns = 2
  RunItems <- ShortLong
  MaxSends = 1
  MaxClears = 0
INVARIANTS
  ScrollbackIsTold NoteLandsLast
PROPERTIES
  RunsEnd
CHECK_DEADLOCK FALSE
