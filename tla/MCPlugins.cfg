\* A store and two plugins with up to five activations, two toggles one after the
\* other, or an invocation and a child process; an inbox of two messages, against
\* two clicks, failures or ends of the process.
SPECIFICATION PluginsSpec
CONSTANTS
  Command = {"send", "run"}
  Invocation = {i1}
  Owner = {1, 2, 3, 4, 5}
  NoOwner = 0
  Child = {c1}
  Parent = {1, 2, 3, 4, 5, i1}
  Plugin = {"store", "chat", "graphs"}
  Bootstrap <- MCBootstrap
  Ordinary <- MCOrdinary
  Handles <- MCHandles
  StoredAtStart <- MCStoredAtStart
  Toggle = {t1, t2}
  Overlapping = FALSE
  Mixes = {{t1, t2}, {i1, c1}}
  MaxMail = 2
  PageSize = 2
  Poller = {1, 2}
  MaxMailEvents = 2
CHECK_DEADLOCK FALSE
INVARIANTS RegisteredIsActive EnabledIsActive HookRunsAlone SignalsAreHeard RunsAsSet SeenIsHeard
PROPERTIES StopEnds InboxIsHeard
