\* No end of the process: a cancel is enough.
SPECIFICATION GraphSpec
CONSTANTS
  Graphs <- MCGraphs
  MaxStops = 0
CHECK_DEADLOCK FALSE
PROPERTIES NotResurrected
