SPECIFICATION Spec
CONSTANTS
  Lines <- MCLines
  BaseLines <- MCBaseLines
  Torn = {"backup"}
  MaxRuns = 2
  MaxFaults = 2
INVARIANT OriginalNeverLost
CHECK_DEADLOCK FALSE
