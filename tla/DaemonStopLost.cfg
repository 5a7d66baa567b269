SPECIFICATION Spec
CONSTANTS
  Timeout = 2
  MaxRuns = 2
INVARIANT
  StopFailsForLostUnit
