SPECIFICATION FairSpec
CONSTANTS
  Timeout = 2
  MaxRuns = 3
INVARIANTS
  StopCatchesEarlierDeaths
  StartOkMeansReady
  StoppedFirstIsReal
PROPERTIES
  StepEnds
