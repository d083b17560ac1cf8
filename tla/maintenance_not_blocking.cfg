SPECIFICATION SteadySpec
CONSTANTS
  InstancePrimary = a
  InstanceStandby = b
  NoNode = none
  Thread = {t1}
  QueueSize = 1
  MaxAttempts = 2
  Scenarios <- MaintainAndSwitch
CHECK_DEADLOCK FALSE
PROPERTY MaintenanceBlocks
