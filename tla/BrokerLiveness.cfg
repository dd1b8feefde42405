SPECIFICATION FairSpec
CONSTANTS
  Windows = {i1}
  Instances = {i1}
  Workspaces = {w1}
  Tasks = {t1}
  NoInstance = NoInstance
  NoRoute = NoRoute
  NoTask = NoTask
  Faults = {"unpublished"}
  Expiring = {t1}
  Asking = {t1}
  Crashing = TRUE
  WindowOf <- MCWindowOf
PROPERTIES EveryTaskEnds AgentsStop
