SPECIFICATION Spec
CONSTANTS
  WordSize = 32
  NRegs = 3
  InstretMod = 2
  Fns <- MCFns
  Alu <- MCAlu
  MulDivValue <- MCMulDivValue
  BranchTaken <- MCBranchTaken
  BitOr <- MCBitOr
  BitClear <- MCBitClear
  Programs <- ProgressPrograms
  ResetAllowed <- MCResetAllowed
  InitRegs <- OneRegFile
  InitMem <- CountedMem
  PredTargets <- SomeTargets
  MulCycles = 2
  DivCycles = 3
INVARIANTS
  TypeOK
  PipelineInv
PROPERTY
  Progress
