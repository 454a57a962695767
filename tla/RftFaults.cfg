SPECIFICATION FairSpec
CONSTANTS
  None = None
  MaxRuns = 3
  Faults = {"step", "hub", "disk", "die"}
  MaxRounds = 3
INVARIANTS RoundsBuildOnEachOther EvaluatesAllRounds
PROPERTIES KeepsPromises ReachesDone
CHECK_DEADLOCK FALSE
