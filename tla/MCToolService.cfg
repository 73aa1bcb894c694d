\* One invocation in one run, with or without it, against every change of the
\* registry, of the run's policy and of its marks.
SPECIFICATION FairSpec
CONSTANTS
  echo = echo  search = search  files = files  t1 = t1  t2 = t2
  Static = {echo}
  Provider = {search, files}
  Tool = {t1, t2}
  ToolOf <- MCToolOf
  ProviderId <- MCProviderId
  Owner <- MCOwner
  Output <- MCOutput
  Run = {r1}
  Call = {c1}
  MaxLevel = 2
  NoRun = NoRun
  NoTool = NoTool
  NoTarget = NoTarget
INVARIANTS CatalogsAreAccountedFor ResultsAreCovered
PROPERTIES StartIsApproved PreparationEnds
CHECK_DEADLOCK FALSE
