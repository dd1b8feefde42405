SPECIFICATION ProcessSpec
CONSTANTS
  Windows = {i1}
  Instances = {i1}
  Workspaces = {w1}
  Tasks = {t1, t2}
  NoInstance = NoInstance
  NoRoute = NoRoute
  NoTask = NoTask
  Faults = {"lost", "unpublished"}
  Expiring = {}
  Asking = {}
  Crashing = TRUE
  WindowOf <- MCWindowOf
  Accounts = {a1, a2}
  MaxRecoveries = 2
  MaxAsked = 3
  ConnectFaults = 3
SYMMETRY Symmetry
INVARIANTS OneActiveTaskPerWorkspace LeaseFollowsRecord SwitchSound
CHECK_DEADLOCK FALSE
