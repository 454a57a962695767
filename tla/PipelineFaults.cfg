SPECIFICATION Spec
CONSTANTS
  N = 4
  MaxRuns = 3
  Faults = {"unpublished", "orphan"}
INVARIANTS RepoWentThroughAllStages NothingBehindAFailedGate SuccessIsThisRuns
CHECK_DEADLOCK FALSE
