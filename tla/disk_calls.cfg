SPECIFICATION Spec
CONSTANTS
  InstancePrimary = a
  InstanceStandby = b
  NoNode = none
  Thread = {t1, t2}
  Faults = 2
  Calls = 3
CHECK_DEADLOCK FALSE
SYMMETRY Alike
INVARIANT ReturnsAreTrue
PROPERTY DiskCallIsOneStep
