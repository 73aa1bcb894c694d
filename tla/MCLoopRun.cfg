\* A run of two turns with two tool calls each.
SPECIFICATION FairSpec
CONSTANTS
  MaxTurns = 2
  MaxCalls = 2
  MaxPublished = 2
INVARIANTS FinishedIsClosed WaitingIsReal
PROPERTIES CancelEnds RunEnds
