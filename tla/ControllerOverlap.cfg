SPECIFICATION FairSpec
CONSTANTS
  Controllers = {c1, c2}
  Instances = {i1, i2}
  None = None
  Faults = {"api", "ssh", "stop", "kill", "die", "preempt"}
  Overlap = TRUE
  BootPolls = 2
  StartTries = 2
  LaunchTries = 2
INVARIANTS TypeOK OneLabelled UnlabelledAccounted BillingAccounted ScriptsOwned ZeroNeedsFinishedPass
PROPERTIES BoxesKeepContract EndsOrPollsInVain
CHECK_DEADLOCK FALSE
