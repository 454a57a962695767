SPECIFICATION FairSpec
CONSTANTS
  None = None
  MaxRuns = 3
  Faults = {"step", "hub", "disk", "die"}
  Window = 2
INVARIANTS NoOpsEvaluatedOnlyWhenHidden
PROPERTIES KeepsPromises ReachesDone OnlyNoOpsTripped
CHECK_DEADLOCK FALSE
