SPECIFICATION Spec
CONSTANTS
  Cores = 2
  Matrices <- MCRwMatrices
  Repetitions = 2
  Dcgm = FALSE
  NamesRw = FALSE
  MaxRuns = 1
  MaxFaults = 0
INVARIANT AllCasesMeasured
CHECK_DEADLOCK FALSE
