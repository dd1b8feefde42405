SPECIFICATION HistorySpec
CONSTANTS
  Windows = {i1, i2}
  Instances = {i1, i2}
  Workspaces = {w1}
  Tasks = {t1}
  NoInstance = NoInstance
  NoRoute = NoRoute
  NoTask = NoTask
  Faults = {"lost", "landed", "unpublished"}
  Expiring = {t1}
  Asking = {t1}
  Crashing = TRUE
  WindowOf <- MCWindowOf
  k1 = k1
  k2 = k2
  c1 = c1
  c2 = c2
  Writers = {c1, c2}
  ChatTasks = {k1, k2}
  Recoveries = {r1, r2}
  Script <- ChatScript
  MaxEntries = 6
  MaxTurns = 2
  ChatFaults = 1
  MaxLog = 4
  KeptEvents = 2
  PageSizes = {1, 2}
  Weights = {1, 2}
  OutputLimit = 6
  Budgets = {2, 6}
  MaxOwned = 3
  Entries = {1, 4}
SYMMETRY Symmetry
INVARIANTS LaunchedAtMostOnce TerminalIsTrue TranscriptSound ReadingSound
PROPERTIES ImplementsDelegatedTask
CHECK_DEADLOCK FALSE
