SPECIFICATION Spec
CONSTANTS
  Execution = {e1, e2, e3}
  Plugin = {p1, p2}
  Subject = {s1, s2}
  Grant = {g1}
  Outcome <- MCOutcome
  Observed <- MCObserved
  NoExecution = NoExecution
  NoContext = NoContext
  NoGrant = NoGrant
SYMMETRY Symmetry
INVARIANTS
  ResultsAreCovered
PROPERTIES
  ClosedIsFrozen
