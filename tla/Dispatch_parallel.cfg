SPECIFICATION LiveSpec
CONSTANTS
  N = 3
  Gated = {1, 3}
  ParallelSafe = {1, 2, 3}
  Request = "ap1"
  Commands <- Contradicting
  MaxSends = 3
  Window = 1
INVARIANTS
  TypeOK DecisionsFollowLog ExecutionWasApproved ResultsInCallOrder QueuedInterruptStopsStarts WaitEndsFairly ClientsSeeBatch
