SPECIFICATION Spec
CONSTANTS
  None = None
  MaxRuns = 2
  Faults = {"step"}
  Window = 2
INVARIANT NoOpsNeverEvaluated
CHECK_DEADLOCK FALSE
