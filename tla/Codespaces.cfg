SPECIFICATION Spec
CONSTANTS
  Clients = {k1, k2}
  MaxAttempts = 2
  MaxDisposals = 1
  Tasks = {t1, t2}
  Stopping = {t1}
  MaxEvents <- MCMaxEvents
  MaxQueued = 1
  MaxPending = 1
  Spaces = {ws1, ws2}
  Edits = {e1, e2}
  MaxPairings = 2
  MaxMoves = 1
  MaxPolicyFaults = 1
INVARIANTS PoliciesSound CodespacesSound
CHECK_DEADLOCK FALSE
