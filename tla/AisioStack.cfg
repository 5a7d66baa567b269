SPECIFICATION Spec
CONSTANTS
  Workflows = {"smoke", "p2p", "dataset", "configure", "aisio", "llama", "modes"}
  Faults = {"dies", "fails", "busy", "mounts", "reboot"}
  MaxRuns = 4
  MaxFaults = 3
INVARIANTS
  TypeOK
  IndexComplete
  DeathsReported
  CleanOnSuccess
  RerunSucceeds
PROPERTIES
  SystemDiskSafe
  DriveTakenOnlyWhenFree
CHECK_DEADLOCK FALSE
