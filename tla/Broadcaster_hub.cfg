SPECIFICATION HubSpec
CONSTANTS
  Attachments = {"t1", "t2"}
  QueueCapacity = 2
  Offered <- RunItems
  MaxItems = 7
  MaxChunks = 5
  Window = 1
INVARIANTS
  TailsAreWhole BaselineFollowsLog SuiteIsMet
