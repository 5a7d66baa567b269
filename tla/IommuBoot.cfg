SPECIFICATION FairSpec
CONSTANTS
  Lines <- MCLines
  BaseLines <- MCBaseLines
  Torn = {"write"}
  MaxRuns = 2
  MaxFaults = 2
INVARIANTS
  TypeOK
  OriginalNeverLost
  OnlyIommuTokensChange
  RebootIsOver
  MeasuredAsConfigured
PROPERTY WorkflowEnds
CHECK_DEADLOCK FALSE
