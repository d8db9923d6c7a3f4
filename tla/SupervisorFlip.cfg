SPECIFICATION Spec
CONSTANTS
  MCBuilds = {TRUE}
  MCScenarios = {"nominal"}
  MCSetpoints = {4}
  MCIterations = {4}
  Vectors <- MCVectors
  Overcurrent = 3
  Deadline = 2
  DutyStep = 3
  DutyMax = 6
  WordSize = 16
  Flipped <- MCFlipped
  StateBits = {1, 2}
  MaxFlips = 1
  MaxSkips = 0
INVARIANTS
  PairedDutyIsTrue
CHECK_DEADLOCK FALSE
