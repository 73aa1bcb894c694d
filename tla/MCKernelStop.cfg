SPECIFICATION Spec
CONSTANTS
  Command = {"send", "run"}
  Invocation = {i1}
  Owner = {1, 2, 3, 4, 5}
  NoOwner = 0
  Child = {c1}
  Parent = {1, 2, 3, 4, 5, i1}
  Plugin = {"store", "chat", "graphs"}
  Bootstrap <- MCBootstrap
  Ordinary <- MCOrdinary
  Handles <- MCHandles
  StoredAtStart <- MCStoredAtStart
  Toggle = {t1, t2}
  Overlapping = FALSE
  Mixes = {{t1, t2}, {i1, c1}}
CHECK_DEADLOCK FALSE
PROPERTIES StoppingActivatesNoMore
