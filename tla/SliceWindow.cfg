SPECIFICATION SliceSpec
CONSTANTS
  MCLength = 4
  MCInsns = {"movs", "cmp", "ldm", "str", "strv"}
  Executions <- MCExecutions
  Seeds <- MCSeeds
  Registers = {"r0", "r1", "cpsr"}
  Goals = {"window"}
  LoopRepeatThreshold = 1
INVARIANTS
  WindowSliceCoversUpstream
CHECK_DEADLOCK FALSE
