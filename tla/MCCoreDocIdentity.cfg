SPECIFICATION PerfSpec
CONSTANTS
  WordSize = 32
  NRegs = 3
  InstretMod = 2
  Fns <- MCFns
  Alu <- MCAlu
  MulDivValue <- MCMulDivValue
  BranchTaken <- MCBranchTaken
  BitOr <- MCBitOr
  BitClear <- MCBitClear
  Programs <- AllPrograms
  ResetAllowed <- NoReset
  InitRegs <- OneRegFile
  InitMem <- CountedMem
  PredTargets <- NoTargets
  MulCycles = 2
  DivCycles = 3
PROPERTY
  DocCycleIdentity
