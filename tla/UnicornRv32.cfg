SPECIFICATION Spec
CONSTANTS
  MCIsa = "rv32"
  MCTag = 1
  MCModels = {"SKIP", "REG_XOR", "REG_SET", "MEM_XOR"}
  MCLate = {12}
  Reg <- MCReg
  ZeroRegs <- MCZeroRegs
  SpReg <- MCSpReg
  Word <- MCWord
  Code <- MCCode
  RamCell <- MCRamCell
  FlashCell <- MCFlashCell
  WindowCell <- MCWindowCell
  FlashImage <- MCFlashImage
  ResetWrites <- MCResetWrites
  InitialSp <- MCInitialSp
  Entry <- MCEntry
  Garbage <- MCGarbage
  Exec <- MCExec
  AsCode <- MCAsCode
  XorWord <- MCXorWord
  FlipCode <- MCFlipCode
  InsnWidth <- MCInsnWidth
  FixedInsnBytes <- MCFixedInsnBytes
  SkipWidths <- MCSkipWidths
  FaultSets <- MCFaultSets
  PowerOn <- MCPowerOn
  Golden <- MCGolden
  GoldenLength = 6
  Rungs = 8
  HangMultiplier = 2
INVARIANTS
  RungsOnGolden
  RunIsFreshReplay
