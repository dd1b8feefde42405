SPECIFICATION FairSpec
CONSTANTS
  Procs = {w1, w2}
  Nobody = Nobody
  NoFile = NoFile
  Late = {w1, w2}
  Faults = {"contention", "heartbeat"}
  MaxFaults = 2
INVARIANTS OwnerHasFile
PROPERTIES ImplementsOwnership LeaderReturns
CHECK_DEADLOCK FALSE
