\* Three OAuth calls on a grant; three registrations of two plugins whose
\* deadlines may be beyond one timer.
SPECIFICATION ServicesSpec
CONSTANTS
  Call = {1, 2, 3}
  MaxGeneration = 2
  MaxBoots = 1
  graphs = graphs  bots = bots  daily = daily  r1 = r1  r2 = r2  r3 = r3
  Owner = {graphs, bots}
  Id = {daily}
  Registration = {r1, r2, r3}
  MaxWait = 2
  MaxDelay = 1
  NoRegistration = NoRegistration
CHECK_DEADLOCK FALSE
INVARIANTS DisconnectedIsGone CancelledStaysCancelled
PROPERTIES ShutdownSettles EveryScheduleFires
