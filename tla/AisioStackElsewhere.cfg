SPECIFICATION Spec
CONSTANTS
  Workflows = {"configure", "aisio", "dataset", "llama"}
  Faults = {"dies", "fails"}
  MaxRuns = 4
  MaxFaults = 1
INVARIANT LlamaSparesMountedDrive
CHECK_DEADLOCK FALSE
