SPECIFICATION Spec
CONSTANTS
  Executions = {t1, t2}
  Faulty = {t2}
  Expiring = {t1}
  Starts = {s1, s2}
  MaxFailures = 2
  Profiles <- MCProfiles
  MaxConns = 2
  c1 = c1
  c2 = c2
  c3 = c3
  c4 = c4
  Calls = {c1, c2, c3, c4}
  ProcessOf <- MCProcessOf
  Versions = {1, 2}
  MaxMisfits = 2
  Jobs = {s1}
  MaxRetries = 1
  Launches = {s1, s2}
INVARIANTS InstallerSound ExecutorSound NoHostUnowned AgentEndSound HostsSound
CHECK_DEADLOCK FALSE
