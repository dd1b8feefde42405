SPECIFICATION Spec
CONSTANTS
  MaxLifecycles = 4
  MaxRestarts = 1
  MaxFaults = 2
  MaxLinkFaults = 2
  MaxAttempts = 2
  Coordinators = {"a", "b"}
  Connections = {"k1", "k2"}
  MaxEnrollments = 2
  MaxTroubles = 2
  BoxTasks = {"t1", "t2"}
  Sizes = {1, 3}
  Sends = {1, 2, 3, 4}
  OrdinaryMaxEvents = 2
  OrdinaryMaxBytes = 4
  MarkerMaxEvents = 1
  MarkerSize = 1
  TotalMaxEvents = 3
  TotalMaxBytes = 7
INVARIANTS TunnelSound LinksSound PairingSound OutboxSound
CHECK_DEADLOCK FALSE
