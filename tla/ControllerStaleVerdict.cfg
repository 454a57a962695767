SPECIFICATION Spec
CONSTANTS
  Controllers = {c1, c2}
  Instances = {i1, i2}
  None = None
  Faults = {}
  Overlap = FALSE
  BootPolls = 2
  StartTries = 2
  LaunchTries = 2
INVARIANT ZeroMeansOwnPass
CHECK_DEADLOCK FALSE
