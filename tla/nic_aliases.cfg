SPECIFICATION Spec
CONSTANTS
  Cluster = {c1, c2}
  InstancePrimary = a
  InstanceStandby = b
  MaxRetries = 3
  Faults = 1
  Calls = 3
CHECK_DEADLOCK FALSE
SYMMETRY Alike
PROPERTY FirstTryHarmless CallIsOneStep
INVARIANT VipNotLost
