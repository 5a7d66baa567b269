SPECIFICATION FairSpec
CONSTANTS
  d1 = d1
  d2 = d2
  DeviceSets = {{d1, d2}, {d1}}
  Cases = 2
  Repeat = 2
  Retries = 2
  MaxRuns = 2
  MaxFaults = 2
INVARIANTS
  TypeOK
  LabelMatchesBoot
  RowsFromOneRun
  CompleteHasAllRows
  DrivesHandedBack
  ReportsWholeDeviceSets
PROPERTY RunEnds
CHECK_DEADLOCK FALSE
