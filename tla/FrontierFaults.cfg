SPECIFICATION FairSpec
CONSTANTS
  None = None
  MaxRuns = 2
  Faults = {"step", "hub", "disk", "die"}
  Selections = {"heretic", "sft", "orpo", "all"}
INVARIANTS EvaluatesLastStep
PROPERTIES KeepsPromises ReachesDone
CHECK_DEADLOCK FALSE
