SPECIFICATION FairSpec
CONSTANTS
  MCBuilds = {TRUE, FALSE}
  MCScenarios = {"nominal", "overcurrent", "deadline_miss"}
  MCSetpoints = {0, 4, 15}
  MCIterations = {0, 1, 3}
  Vectors <- MCVectors
  Overcurrent = 3
  Deadline = 2
  DutyStep = 3
  DutyMax = 6
  WordSize = 16
  Flipped <- MCFlipped
  StateBits = {1, 2}
  MaxFlips = 2
  MaxSkips = 1
INVARIANTS
  UnfaultedDuty
  IInv
  UnfaultedRun
  SafeMeansZeroDuty
  NoSafetyViolation
PROPERTIES
  MismatchIsDetected
CHECK_DEADLOCK FALSE
