SPECIFICATION Spec
CONSTANTS
  MCLength = 4
  MCInsns = {"movs", "adds", "cmp", "bne", "cbz", "ldm", "str", "strb", "strv", "strd"}
  Executions <- MCSearchExecutions
  Seeds <- MCSeeds
  Registers = {"r0", "r1", "cpsr"}
  Goals = {"boot", "supervisor", "window"}
  LoopRepeatThreshold = 1
  Swept <- MCSwept
  SweepWidths <- MCSweepWidths
  SearchWidths <- MCSearchWidths
  PoolLimit = 4
  EvolveAfter = {"serial"}
  BucketLimit = 3
  Symbols <- MCSymbols
  Worker = {w1, w2}
  RunOutcome <- MCRunOutcome
  RunMarks <- MCRunMarks
  RaisesOn <- MCRaisesOn
  ChunkSize = 3
  PipeRoom = 1
  MaxDeaths = 1
  Checkpoints = 2
  Achieved <- MCAchieved
  Order = 2
  Population = 3
  Generations = 2
  EliteN = 1
  ImmigrantN = 1
  TournamentSize = 2
  MinSeparation = 2
INVARIANTS
  CampaignInv
  SliceIsExact
  LegibleRunsAreCovered
  ResultIsComplete
  RowsFollowSets
  BestIsItsOwn
  NeverLosesBest
  ReportsShowTheSweep
PROPERTIES
  EveryExperimentOnce
  BreedingKeepsSeparation
  CampaignEnds
  KeepsContract
CHECK_DEADLOCK FALSE
