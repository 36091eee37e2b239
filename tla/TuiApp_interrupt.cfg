SPECIFICATION AppSpec
CONSTANTS
  Attachments = {1, 2}
  QueueCapacity = 1
  Offered <- AskTwo
  MaxItems = 6
  Window = 1
  FeedDepth = 1
  DrainDeep = 2
  DrainFlood = 3
  DrainRunEnd = 4
  Paced = FALSE
  Widths = {"wide"}
  MaxRuns = 1
  RunItems <- OneRun
  MaxSends = 2
  MaxClears = 0
INVARIANTS
  InterruptReportsOk
CHECK_DEADLOCK FALSE
