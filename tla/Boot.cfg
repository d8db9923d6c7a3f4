SPECIFICATION Spec
CONSTANTS
  MCOneSkip = {"genuine", "forged", "rollback", "bad_magic"}
  MCTwoSkips = {"rollback", "bad_magic"}
  MCBaseline = {"genuine", "forged", "rollback", "bad_magic"}
  Campaigns <- MCCampaigns
INVARIANTS
  TypeOK
  UnfaultedDecision
  NoBypass
  PassMeansEveryStage
  BypassIsAcceptance
CHECK_DEADLOCK FALSE
