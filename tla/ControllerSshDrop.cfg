SPECIFICATION Spec
CONSTANTS
  Controllers = {c1}
  Instances = {i1, i2}
  None = None
  Faults = {"ssh"}
  Overlap = FALSE
  BootPolls = 2
  StartTries = 2
  LaunchTries = 2
PROPERTY SshDropKeepsJob
CHECK_DEADLOCK FALSE
