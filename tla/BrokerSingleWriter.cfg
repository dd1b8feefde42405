SPECIFICATION BrokerSpec
CONSTANTS
  Windows = {i1, i2}
  Instances = {i1, i2}
  Workspaces = {w1}
  Tasks = {t1, t2}
  NoInstance = NoInstance
  NoRoute = NoRoute
  NoTask = NoTask
  Faults = {}
  Expiring = {}
  Asking = {}
  Crashing = FALSE
  WindowOf <- MCWindowOf
SYMMETRY Symmetry
INVARIANTS SingleWriter
