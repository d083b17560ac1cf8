SPECIFICATION SteadySpec
CONSTANTS
  InstancePrimary = a
  InstanceStandby = b
  NoNode = none
  Thread = {t1, t2}
  QueueSize = 1
  MaxAttempts = 2
  Scenarios <- FaultsAndHandovers
CHECK_DEADLOCK FALSE
INVARIANT AttemptsBounded AdvertisedFreeIsQuiet RollbackIsComplete StoppedBeforeDetach
PROPERTY MaintenanceFreezes
