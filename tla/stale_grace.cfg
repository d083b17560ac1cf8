SPECIFICATION SteadySpec
CONSTANTS
  InstancePrimary = a
  InstanceStandby = b
  NoNode = none
  Thread = {t1, t2}
  QueueSize = 1
  MaxAttempts = 2
  Scenarios <- Switchover
CHECK_DEADLOCK FALSE
PROPERTY GraceSuppressesFallback
