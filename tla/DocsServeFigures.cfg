SPECIFICATION Spec
CONSTANTS
  Plots <- MCPlots
  MaxEdits = 1
  MaxServes = 1
INVARIANTS
  OkMeansOwnFigures
CHECK_DEADLOCK FALSE
