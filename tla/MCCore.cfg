SPECIFICATION PerfSpec
CONSTANTS
  WordSize = 32
  NRegs = 3
  InstretMod = 2
  Fns <- MCFns
  Alu <- MCAlu
  MulDivValue <- MCMulDivValue
  BranchTaken <- MCBranchTaken
  BitOr <- MCBitOr
  BitClear <- MCBitClear
  Programs <- AllPrograms
  ResetAllowed <- MCResetAllowed
  InitRegs <- OneRegFile
  InitMem <- CountedMem
  PredTargets <- SomeTargets
  MulCycles = 2
  DivCycles = 3
INVARIANTS
  FwdPrecomputeMatches
  OperandsCurrent
  FetchedWordMatchesPc
  PredictorTaughtAligned
  RetiredMatchesProgram
  CycleIdentity
  BoundedGap
PROPERTY
  Implements
