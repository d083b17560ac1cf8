SPECIFICATION FairSpec
CONSTANTS
  HeartbeatInterval = 1
  DeadInterval = 3
  CheckInterval = 1
  ProbeTimeout = 2
  MaxDelay = 1
  QueueSize = 2
  Horizon = 8
  Losses = 2
  Changes = 2
INVARIANT AliveIsRecent LossesTolerated
PROPERTY VerdictSettles
