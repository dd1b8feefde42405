SPECIFICATION MCSpec
CONSTANTS
  n1 = n1
  n2 = n2
  n3 = n3
  i1 = i1
  i2 = i2
  i3 = i3
  Windows = {n1, n2, n3}
  Instances = {i1, i2, i3, i4}
  Workspaces = {w1, w2}
  Tasks = {t1, t2}
  NoInstance = NoInstance
  NoRoute = NoRoute
  NoTask = NoTask
  NoOp = NoOp
  MaxNodes = 2
  WindowOf <- MCWindowOf
  RouteTasks = {rt1, rt2}
  RouteAttempts = {ra1, ra2}
  RouteReads = {1, 2}
  RouteLimit = 1
  MaxRouteFaults = 1
  MaxReconnects = 1
SYMMETRY Symmetry
INVARIANTS RoutesSound DeletedIsIdle LeaseMatchesBinding ClaimsMatchView
PROPERTIES ImplementsTaskRoutes
CHECK_DEADLOCK FALSE
