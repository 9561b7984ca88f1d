SPECIFICATION AgreeSpec
CONSTANTS
  WordSize = 16
  BtbEntries = 2
  RasEntries = 2
  InitBtb <- MCInitBtb
  InitRas <- MCInitRas
  Resolvable <- MCResolvable
INVARIANTS
  AgreesWithModel
  PredictorRemembers
