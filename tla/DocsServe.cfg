SPECIFICATION Spec
CONSTANTS
  Plots <- MCPlots
  MaxEdits = 2
  MaxServes = 2
INVARIANTS
  OkIsCurrent
  OwnFigures
PROPERTIES
  SettlesCurrent
  LiveSpec
CHECK_DEADLOCK FALSE
