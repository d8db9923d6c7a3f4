SPECIFICATION Spec
CONSTANTS
  MCIsa = "cm3"
  MCTag = 0
  MCModels = {"SKIP", "REG_XOR", "REG_SET", "MEM_XOR"}
  MCLate = {10, 12}
  Reg <- MCReg
  ZeroRegs <- MCZeroRegs
  SpReg <- MCSpReg
  Word <- MCWord
  Code <- MCCode
  RamCell <- MCRamCell
  FlashCell <- MCFlashCell
  WindowCell <- MCWindowCell
  FlashImage <- MCFlashImage
  ResetWrites <- MCResetWrites
  InitialSp <- MCInitialSp
  Entry <- MCEntry
  Garbage <- MCGarbage
  Exec <- MCExec
  AsCode <- MCAsCode
  XorWord <- MCXorWord
  FlipCode <- MCFlipCode
  InsnWidth <- MCInsnWidth
  FixedInsnBytes <- MCFixedInsnBytes
  SkipWidths <- MCSkipWidths
  FaultSets <- MCFaultSets
  PowerOn <- MCPowerOn
  Golden <- MCGolden
  GoldenLength = 5
  Rungs = 2
  HangMultiplier = 2
INVARIANTS
  TypeOK
  ResumeIsReplay
  LandsOnTrigger
  BoundedEmulation
  IInv
  RunIsReplay
