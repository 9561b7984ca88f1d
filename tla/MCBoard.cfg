SPECIFICATION BoardSpec
CONSTANTS
  Bytes = {"a", "b"}
  MaxBytes = 4
  TxCycles = 2
  FrameCycles = 2
  MinBlocks = 2
  Modulus = 4
  Advances = {1}
  FirstLines = {4}
  FirstCounts = {2}
  MaxLines = 24
  MaxSpoiled = 1
  Blocks = 3
  MaxLost = 2
  Losable = {"begin", "end", "cycles", "error", "hpm1"}
  Windows <- MCWindows
  Hits <- MCHits
  Options <- MCOptions
  MinCycles = 100
  MaxSkew = 4
INVARIANTS
  PrintedIsSent
  BytesAccounted
  BringupAcceptedIsAlive
  BringupRejectedForCause
  ScoredIsSound
  HealthyIsScored
PROPERTY
  BoardGoesOn
CHECK_DEADLOCK FALSE
