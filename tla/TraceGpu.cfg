SPECIFICATION Spec
CONSTANTS
  SmallestPage = 2
  AddressBits = 6
  None = None
  Kernels = {{"intel", "amd"}, {"vtdss", "x86_64", "amdv1"}, {}}
  Slots = {"same", "next", "previous"}
  Iovas = {0, 10}
  Paddrs = {26, 32, 34}
  Sizes = {4, 16}
  Domains = {{2}, {2, 8}, {2, 4, 8, 16}}
  Others = {48}
  Junk = 63
  MaxFaults = 2
INVARIANTS
  NothingLeft
  VerdictTrue
  NoFalseAlarm
  OkMeansTraced
CHECK_DEADLOCK FALSE
