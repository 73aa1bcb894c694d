\* A graph with up to two ends of the process; a bot with three attempts, three
\* requests and two restarts.
SPECIFICATION Spec
CONSTANTS
  Graphs <- MCGraphs
  MaxStops = 2
  MaxAttempts = 3
  MaxRequests = 3
  MaxRestarts = 2
CHECK_DEADLOCK FALSE
INVARIANTS StepsAreNotReplayed ClosedIsStored RunIsReachable ClosedAsItEnded LineageIsKept
PROPERTIES GraphEnds
