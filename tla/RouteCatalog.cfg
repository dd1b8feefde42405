SPECIFICATION FairSpec
CONSTANTS
  local = local
  remote = remote
  reusing = reusing
  t1 = t1
  t2 = t2
  t3 = t3
  d1 = d1
  d2 = d2
  d3 = d3
  Requests = {local, remote, reusing}
  Remote = {remote}
  Tasks = {t1, t2, t3}
  Delegations = {d1, d2, d3}
  TaskOf <- MCTaskOf
  DelegationOf <- MCDelegationOf
  Attempts = {a1, a2}
  Limit = 1
  NoRoute = NoRoute
  NoRequest = NoRequest
  NoGroup = NoGroup
  Nobody = Nobody
  Faults = {"lost", "landed", "throws"}
  MaxFaults = 1
  MaxRestarts = 1
INVARIANTS DispatchedHasRoute
PROPERTIES RoutesLeaveSafely RouteCatchesUp
CHECK_DEADLOCK FALSE
