SPECIFICATION SteadySpec
CONSTANTS
  InstancePrimary = a
  InstanceStandby = b
  NoNode = none
  Thread = {t1, t2}
  QueueSize = 1
  MaxAttempts = 2
  Scenarios <- CrashOnly
CHECK_DEADLOCK FALSE
INVARIANT OneFailoverThread
