SPECIFICATION Spec
CONSTANTS
  InstancePrimary = a
  InstanceStandby = b
  NoNode = none
  Thread = {t1}
  QueueSize = 1
  MaxAttempts = 2
  Scenarios <- NothingHappens
CHECK_DEADLOCK FALSE
PROPERTY FirstAttachWins
