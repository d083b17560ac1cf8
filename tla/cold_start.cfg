SPECIFICATION Spec
CONSTANTS
  InstancePrimary = a
  InstanceStandby = b
  NoNode = none
  Thread = {t1}
  QueueSize = 1
  MaxAttempts = 2
  Scenarios <- RebootWithFault
CHECK_DEADLOCK FALSE
INVARIANT TypeOK SingleWriter AdvertisedFreeIsQuiet
PROPERTY ImplementsDiskOwnership
