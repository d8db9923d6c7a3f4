SPECIFICATION Spec
CONSTANTS
  MCIsa = "cm3"
  MCTag = 1
  MCModels = {"SKIP"}
  MCLate = {}
  Reg <- MCReg
  ZeroRegs <- MCZeroRegs
  SpReg <- MCSpReg
  Word <- MCWord
  Code <- MCCode
  RamCell <- MCRamCell
  FlashCell <- MCFlashCell
  WindowCell <- MCWindowCell
  FlashImage <- MCFlashImage
  ResetWrites <- MCResetWrites
  InitialSp <- MCInitialSp
  Entry <- MCEntry
  Garbage <- MCGarbage
  Exec <- MCExec
  AsCode <- MCAsCode
  XorWord <- MCXorWord
  FlipCode <- MCFlipCode
  InsnWidth <- MCInsnWidth
  FixedInsnBytes <- MCFixedInsnBytes
  SkipWidths <- MCSkipWidths
  FaultSets <- MCFaultSets
  PowerOn <- MCPowerOn
  Golden <- MCGolden
  GoldenLength = 7
  Rungs = 3
  HangMultiplier = 2
INVARIANTS
  RunIsFreshReplay
