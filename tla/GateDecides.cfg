SPECIFICATION Spec
CONSTANTS
  None = None
  Scores <- MCScores
  MaxSamples = 2
INVARIANTS BetterStillPasses TargetsMetPass FitsTheGpus BrokenIsError EmptyNeverPasses
CHECK_DEADLOCK FALSE
