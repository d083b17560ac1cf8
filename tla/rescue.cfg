SPECIFICATION FairSteadySpec
CONSTANTS
  InstancePrimary = a
  InstanceStandby = b
  NoNode = none
  Thread = {t1, t2}
  QueueSize = 1
  MaxAttempts = 2
  Scenarios <- Rescues
CHECK_DEADLOCK FALSE
PROPERTY  PromotionIsComplete NoServingPrimarySevered
