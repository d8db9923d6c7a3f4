SPECIFICATION FairSpec
CONSTANTS
  MCTag = 0
  GoldenLength = 5
  MCModels = {"SKIP", "REG_XOR", "REG_SET", "MEM_XOR", "OPCODE_XOR"}
  Reg <- MCReg
  ZeroRegs <- MCZeroRegs
  SpReg <- MCSpReg
  Word <- MCWord
  Code <- MCCode
  RamCell <- MCRamCell
  FlashCell <- MCFlashCell
  WindowCell <- MCWindowCell
  FlashImage <- MCFlashImage
  ResetWrites <- MCResetWrites
  InitialSp <- MCInitialSp
  Entry <- MCEntry
  Garbage <- MCGarbage
  Exec <- MCExec
  BoardExec <- MCBoardExec
  AsCode <- MCAsCode
  UnicornReset <- MCUnicornReset
  XorWord <- MCXorWord
  FlipCode <- MCFlipCode
  InsnWidth <- MCInsnWidth
  FaultSets <- MCFaultSets
  PowerOn <- MCPowerOn
  HandlerPc <- MCHandlerPc
  Budget = 10
  MaxRuns = 2
INVARIANTS
  AgreesOnHalt
  TraceIsGolden
PROPERTIES
  EveryRunEnds
