SPECIFICATION CheckSpec
CONSTANTS
  WordSize = 32
  NRegs = 3
  InstretMod = 2
  Fns <- MCFns
  Alu <- MCAlu
  MulDivValue <- MCMulDivValue
  BranchTaken <- MCBranchTaken
  BitOr <- MCBitOr
  BitClear <- MCBitClear
  Programs <- TimingPrograms
  ResetAllowed <- NoReset
  InitRegs <- NoReturnAddress
  InitMem <- CountedMem
  PredTargets <- WordTargets
  MulCycles = 2
  DivCycles = 3
  BtbEntries = 4
  RasEntries = 2
  InitBtb <- MCInitBtb
  InitRas <- MCInitRas
  LinkRegs <- MCLinkRegs
  MaxRetired = 20
INVARIANTS
  SpanExact
  ClosureExact
  ResidualIsSkew
  PredictionIsForFetch
PROPERTY
  ImplementsCore
CHECK_DEADLOCK FALSE
