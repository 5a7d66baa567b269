SPECIFICATION FairSpec
CONSTANTS
  Cores = 2
  Matrices <- MCMatrices
  Repetitions = 2
  Dcgm = TRUE
  NamesRw = FALSE
  MaxRuns = 2
  MaxFaults = 2
INVARIANTS
  TypeOK
  MeasuredAsNamed
  RunsOnItsCpus
  OwnSamples
  MonitorsStopped
  AllCasesMeasured
  BuildsNamed
PROPERTY RunnerEnds
CHECK_DEADLOCK FALSE
