SPECIFICATION HistorySpec
CONSTANTS
  MCIsa = "cm3"
  MCTag = 0
  MCModels = {"REG_SET", "SKIP"}
  MCLate = {}
  Reg <- MCReg
  ZeroRegs <- MCZeroRegs
  SpReg <- MCSpReg
  Word <- MCWord
  Code <- MCCode
  RamCell <- MCRamCell
  FlashCell <- MCFlashCell
  WindowCell <- MCWindowCell
  FlashImage <- MCFlashImage
  ResetWrites <- MCResetWrites
  InitialSp <- MCInitialSp
  Entry <- MCEntry
  Garbage <- MCGarbage
  Exec <- MCExec
  AsCode <- MCAsCode
  XorWord <- MCXorWord
  FlipCode <- MCFlipCode
  InsnWidth <- MCInsnWidth
  FixedInsnBytes <- MCFixedInsnBytes
  SkipWidths <- MCSkipWidths
  FaultSets <- MCSingleFaults
  PowerOn <- MCPowerOn
  Golden <- MCGolden
  GoldenLength = 5
  Rungs = 2
  HangMultiplier = 2
INVARIANTS
  RowsRepeat
