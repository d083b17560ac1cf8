SPECIFICATION Spec
CONSTANTS
  HeartbeatInterval = 1
  DeadInterval = 3
  CheckInterval = 1
  ProbeTimeout = 2
  MaxDelay = 1
  QueueSize = 2
  Horizon = 12
  Losses = 0
  Changes = 3
INVARIANT FallbackHearsHeartbeat
