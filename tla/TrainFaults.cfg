SPECIFICATION FairSpec
CONSTANTS
  None = None
  MaxRuns = 3
  Faults = {"step", "hub", "disk", "die"}
  Modes = {"distill", "live-rl"}
  Rows <- MCRows
INVARIANTS UnpublishedPassExplained AnnouncedIsReleased TrainsOnOwnBuild LeaksExplained
PROPERTIES KeepsPromises ReachesDone
CHECK_DEADLOCK FALSE
