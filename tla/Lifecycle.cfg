SPECIFICATION FairSpec
CONSTANTS
  Procs = {w1, w2}
  Nobody = Nobody
  NoRuntime = NoRuntime
  NoWrite = NoWrite
  Faults = {"create", "start", "stop", "contend", "release", "heartbeat", "provisional"}
  MaxFaults = 2
  MaxTerms = 2
INVARIANTS OneRuntime
PROPERTIES WritesInOrder OwnerServes
CHECK_DEADLOCK FALSE
